---- MODULE Spec2Model ----
(***************************************************************************)
(* Model of the bulk download/upload manager of nkiri-crawler              *)
(* (src/bulk.py): the two persisted record maps, the retry ledger, the     *)
(* per-item state machine download_and_upload and the process_urls cycle.  *)
(* Backend outcomes (fetch, upload, verify), file-system outcomes (save,   *)
(* delete, mkdir) and process kills are inputs drawn with \E.              *)
(***************************************************************************)
EXTENDS Integers, Sequences, FiniteSets, TLC

\* ------------------------------------------------------------------ bounds
\* hash seeds a process may start with are 0..MaxSeed
MaxSeed == 1
\* process_urls cycles of the one process of Spec
MaxCycles == 3
\* process_urls cycles, over all processes, where saves fail and kills happen
MaxFaultCycles == 3
\* process starts after the first one
MaxRestarts == 1

\* lines of a backlog file, and blanks before the text of a line, in
\* SpecBacklog; cycles of its process
MaxLines == 2

MaxLead == 1

MaxParseCycles == 2

\* the highest reading of the clock in SpecLive, where cycles never end
MaxLiveClock == 2

\* rows of the downloads table, row ids handed out, entries of
\* download_queue, worker threads alive at once and the highest setting of
\* the spinner in SpecGui
MaxRows == 2

MaxRowIds == 3

MaxWorkers == 2

MaxPending == 2

MaxConcurrent == 2

\* the highest max_tries of a wrapped call in SpecRetry
MaxRetryTries == 3

\* config.get("max_download_failures", 3)
MaxFailures == 3

\* ------------------------------------------------------------ identities
Urls == {"u1", "u2"}

Seeds == 0..MaxSeed

UrlIndex(url) == IF url = "u1" THEN 0 ELSE 1

\* str(hash(url)): Python salts str hashes with a per-process seed, so the
\* key of a url depends on the process that computes it.  Distinct
\* (seed, url) pairs are given distinct keys (no 64-bit collisions).
UrlHash(url, s) == s * Cardinality(Urls) + UrlIndex(url)

\* ------------------------------------------------ insertion-ordered dicts
\* A Python dict / JSON object is a sequence of records with distinct keys,
\* in insertion order.
Has(m, k) == \E i \in 1..Len(m) : m[i].key = k

Get(m, k) == m[CHOOSE i \in 1..Len(m) : m[i].key = k]

Put(m, rec) ==
    IF Has(m, rec.key)
    THEN [i \in 1..Len(m) |-> IF m[i].key = rec.key THEN rec ELSE m[i]]
    ELSE Append(m, rec)

DelKey(m, k) == SelectSeq(m, LAMBDA r : r.key # k)

KeyList(m) == [i \in 1..Len(m) |-> m[i].key]

RecsOf(m, url) == {i \in 1..Len(m) : m[i].url = url}

\* ------------------------------------------------------------------ files
\* A file on disk: missing, a complete JSON document, a partially written
\* document, text that is not JSON, or bytes that cannot even be decoded.
Missing == [kind |-> "missing", data |-> <<>>]

Json(data) == [kind |-> "json", data |-> data]

Partial == [kind |-> "partial", data |-> <<>>]

BadSyntax == [kind |-> "badsyntax", data |-> <<>>]

Unreadable == [kind |-> "unreadable", data |-> <<>>]

\* ------------------------------------------------------------- state store
\* A load that drops a damaged file without keeping a copy.
LoadJsonFileNoBackup(file, copy) ==
    [data |-> IF file.kind = "json" THEN file.data ELSE <<>>,
     copied |-> "none"]

\* _load_json_file: a missing file is the empty map; a JSONDecodeError
\* (text that is not JSON, a truncated document) returns the empty map after
\* trying to copy the file to "<name>.<time>.bak"; any other error while
\* reading returns the empty map with no backup.  copy is what shutil.copy2
\* does, "ok" or "error"; copied tells whether a copy was tried and how it
\* ended.
LoadJsonFile(file, copy) ==
    CASE file.kind = "json" -> [data |-> file.data, copied |-> "none"]
      [] file.kind = "missing" -> [data |-> <<>>, copied |-> "none"]
      [] file.kind \in {"badsyntax", "partial"} ->
            [data |-> <<>>, copied |-> copy]
      [] OTHER -> [data |-> <<>>, copied |-> "none"]

\* What can happen to one _save_json_file call.
SaveOutcomes == {"ok", "error", "kill_in_write", "kill_before_rename"}

\* A temporary file that holds a whole document (its content is never read).
Complete == [kind |-> "complete", data |-> <<>>]

SaveKills == {"kill_in_write", "kill_before_rename"}

\* A save that writes the target file in place, without the temporary file.
SaveJsonFileInPlace(file, tmp, data, how) ==
    CASE how = "ok" -> [file |-> Json(data), tmp |-> tmp, ok |-> TRUE]
      [] how = "error" -> [file |-> file, tmp |-> tmp, ok |-> FALSE]
      [] how = "kill_in_write" -> [file |-> Partial, tmp |-> tmp, ok |-> FALSE]
      [] OTHER -> [file |-> Json(data), tmp |-> tmp, ok |-> FALSE]

\* _save_json_file: dump to "<name>.tmp", then os.replace / os.rename it over
\* the target.  Every exception is caught and reported as False ("error":
\* the temporary file could not be opened); a kill ends the process where it
\* stands, while the temporary file is being written or before the rename.
\* The result is the target, the temporary file and the return value.
SaveJsonFile(file, tmp, data, how) ==
    CASE how = "ok" -> [file |-> Json(data), tmp |-> Missing, ok |-> TRUE]
      [] how = "error" -> [file |-> file, tmp |-> tmp, ok |-> FALSE]
      [] how = "kill_in_write" -> [file |-> file, tmp |-> Partial, ok |-> FALSE]
      [] OTHER -> [file |-> file, tmp |-> Complete, ok |-> FALSE]

\* A delete that reports success without removing anything.
DeleteContentNoop(exists, how) == [exists |-> exists, ok |-> exists]

\* _delete_content: a nonexistent path is refused; a PermissionError/OSError
\* leaves the content in place and returns False.
DeleteContent(exists, how) ==
    IF ~exists THEN [exists |-> FALSE, ok |-> FALSE]
    ELSE IF how = "ok" THEN [exists |-> FALSE, ok |-> TRUE]
    ELSE [exists |-> TRUE, ok |-> FALSE]

\* ---------------------------------------------------------------- backlog
\* A line of the backlog file: leading blanks and a body.
Strip(line) == line.body

\* A filter that only drops empty lines.
IsWorkLineKeepsComments(line) == Strip(line) # ""

IsWorkLine(line) == Strip(line) # "" /\ Strip(line) \notin {"#c"}

\* _load_urls_from_file: the stripped lines that are neither empty nor
\* comments, in file order; a missing file gives the empty list, and so
\* does a file that cannot be read.
LoadUrlsFromFile(file) ==
    IF file.kind # "text" THEN <<>>
    ELSE LET kept == SelectSeq(file.data, IsWorkLine)
         IN  [i \in 1..Len(kept) |-> Strip(kept[i])]

\* ------------------------------------------------------------ retry ledger
\* The record-count test that lets one more attempt through at the ceiling.
ExhaustedOffByOne(failed, key) ==
    Has(failed, key) /\ Get(failed, key).failures > MaxFailures

\* failures >= self.max_failures
Exhausted(failed, key) ==
    Has(failed, key) /\ Get(failed, key).failures >= MaxFailures

\* A completion test that never short-circuits.
AlreadyProcessedNever(processed, key) == FALSE

\* download_and_upload: if url_hash in self.processed_urls
AlreadyProcessed(processed, key) == Has(processed, key)

\* A backlog loop that passes over nothing.
BacklogSkipsNever(processed, key) == FALSE

\* process_urls: if url_hash in self.processed_urls
BacklogSkips(processed, key) == Has(processed, key)

\* A failure count that starts again at every failure.
BumpFailureRestart(failed, key, url, err, now) ==
    IF ~Has(failed, key)
    THEN Append(failed, [key |-> key, url |-> url, first |-> now, last |-> now,
                         failures |-> 1, err |-> err])
    ELSE Put(failed, [Get(failed, key) EXCEPT !.failures = 1, !.first = now,
                                               !.last = now, !.err = err])

\* The in-memory part of _record_download_failure.
BumpFailure(failed, key, url, err, now) ==
    IF ~Has(failed, key)
    THEN Append(failed, [key |-> key, url |-> url, first |-> now, last |-> now,
                         failures |-> 1, err |-> err])
    ELSE Put(failed, [Get(failed, key) EXCEPT !.failures = @ + 1,
                                               !.last = now, !.err = err])

\* ------------------------------------------------------- retry decorator
\* What one invocation of a wrapped function can do: return True or False,
\* raise an exception the decorator lists, or raise another one.
CallOutcomes == {"true", "false", "raise_listed", "raise_other"}

\* The wrapper of retry(max_tries, delay_seconds, backoff_factor): outs[i] is
\* what the i-th invocation does.  A return ends the loop at once; a listed
\* exception is retried after a sleep while tries are left, and re-raised
\* when none is; any other exception propagates.  n counts the invocations
\* made, sleeps lists the delays slept.
RECURSIVE RetryLoopSleepsLast(_, _, _, _, _, _)
RetryLoopSleepsLast(mtries, mdelay, backoff, outs, n, sleeps) ==
    IF mtries > 0
    THEN LET o == outs[n + 1]
         IN  IF o \in {"true", "false"}
             THEN [ret |-> o, n |-> n + 1, sleeps |-> sleeps]
             ELSE IF o = "raise_other"
             THEN [ret |-> "raise", n |-> n + 1, sleeps |-> sleeps]
             ELSE RetryLoopSleepsLast(mtries - 1, mdelay * backoff, backoff,
                                      outs, n + 1, Append(sleeps, mdelay))
    ELSE [ret |-> "raise", n |-> n, sleeps |-> sleeps]

RECURSIVE RetryLoop(_, _, _, _, _, _)
RetryLoop(mtries, mdelay, backoff, outs, n, sleeps) ==
    IF mtries > 0
    THEN LET o == outs[n + 1]
         IN  IF o \in {"true", "false"}
             THEN [ret |-> o, n |-> n + 1, sleeps |-> sleeps]
             ELSE IF o = "raise_other" \/ mtries - 1 = 0
             THEN [ret |-> "raise", n |-> n + 1, sleeps |-> sleeps]
             ELSE RetryLoop(mtries - 1, mdelay * backoff, backoff, outs, n + 1,
                            Append(sleeps, mdelay))
    ELSE [ret |-> "none", n |-> n, sleeps |-> sleeps]

Retry(max_tries, delay_seconds, backoff_factor, outs) ==
    RetryLoop(max_tries, delay_seconds, backoff_factor, outs, 0, <<>>)

\* The sequences of invocation outcomes a wrapper with max_tries tries can
\* consume: each ends at the first return or unlisted exception, or after
\* max_tries listed exceptions.
RECURSIVE CallRuns(_)
CallRuns(tries) ==
    IF tries = 0 THEN {<<>>}
    ELSE {<<o>> : o \in CallOutcomes \ {"raise_listed"}}
         \cup (IF tries = 1 THEN {<<"raise_listed">>}
               ELSE {<<"raise_listed">> \o r : r \in CallRuns(tries - 1)})

Call(op, res, remote) == [op |-> op, res |-> res, remote |-> remote]

Logged(op, outs, n) == [i \in 1..n |-> Call(op, outs[i], TRUE)]

\* @retry(max_tries=2, delay_seconds=10) upload_file
UploadTries == 2

UploadDelay == 10

\* @retry(max_tries=2, delay_seconds=5) verify_upload
VerifyTries == 2

VerifyDelay == 5

\* backoff_factor: int = 2
BackoffFactor == 2

\* rclone.upload_file as its caller sees it: the decorated call.
UploadFile(outs) ==
    LET r == Retry(UploadTries, UploadDelay, BackoffFactor, outs)
    IN  [ret |-> r.ret, calls |-> Logged("upload", outs, r.n)]

\* A verify_upload that runs the rclone check whatever the config says.
VerifyUploadAlwaysRemote(outs, verify_uploads) ==
    LET r == Retry(VerifyTries, VerifyDelay, BackoffFactor, outs)
    IN  [ret |-> r.ret, calls |-> Logged("verify", outs, r.n)]

\* rclone.verify_upload as its caller sees it: True at once when
\* verification is disabled in the config, else the decorated rclone check.
VerifyUpload(outs, verify_uploads) ==
    IF ~verify_uploads
    THEN [ret |-> "true", calls |-> <<Call("verify", "true", FALSE)>>]
    ELSE LET r == Retry(VerifyTries, VerifyDelay, BackoffFactor, outs)
         IN  [ret |-> r.ret, calls |-> Logged("verify", outs, r.n)]

\* ------------------------------------------------- download_and_upload
\* The state one item's processing reads and writes, with its outcome:
\* ret is the return value ("raise": an exception left the function,
\* "killed": the process was killed inside it), skip the short-circuit taken,
\* calls the backend invocations made, in order, io the saves and deletes
\* made with their return values.
ItemState(processed, failed, procFile, procTmp, failFile, failTmp, artifact) ==
    [processed |-> processed, failed |-> failed,
     procFile |-> procFile, procTmp |-> procTmp,
     failFile |-> failFile, failTmp |-> failTmp,
     artifact |-> artifact,
     ret |-> "none", skip |-> "no", calls |-> <<>>, io |-> <<>>]

Io(op, ok) == [op |-> op, ok |-> ok]

\* A failure that is logged and written nowhere.
RecordDownloadFailureLogsOnly(st, url, err, e, c) == [st EXCEPT !.ret = "false"]

\* _record_download_failure followed by "return False": the failure map is
\* changed and saved at once; the save's result is ignored.
RecordDownloadFailure(st, url, err, e, c) ==
    LET failed == BumpFailure(st.failed, UrlHash(url, c.seed), url, err, c.now)
        sv == SaveJsonFile(st.failFile, st.failTmp, failed, e.saveFail)
    IN  [st EXCEPT !.failed = failed, !.failFile = sv.file, !.failTmp = sv.tmp,
                   !.io = Append(@, Io("save_failed", sv.ok)),
                   !.ret = IF e.saveFail \in SaveKills THEN "killed" ELSE "false"]

\* An interruption that is written down as a failure of the item.
AbandonAsFailure(st, url, e, c) ==
    [RecordDownloadFailure(st, url, "interrupt", e, c) EXCEPT !.ret = "killed"]

\* The process is interrupted or killed inside a backend call: neither
\* "except Exception" nor any handler below it catches the interrupt, so
\* download_and_upload is left at once.
Abandon(st, url, e, c) == [st EXCEPT !.ret = "killed"]

\* A test of the verification result that lets every upload through.
VerifySucceededAlways(v) == TRUE

\* if verify_success:
VerifySucceeded(v) == v.ret = "true"

\* A test of the upload result that lets every upload through.
UploadSucceededAlways(up) == TRUE

\* if upload_success:
UploadSucceeded(up) == up.ret = "true"

\* The clearing of the failure record on success, left out.
ClearFailureNever(st, key, e) == st

\* if url_hash in self.failed_downloads: del ...; self._save_failed_downloads()
ClearFailure(st, key, e) ==
    IF Has(st.failed, key)
    THEN LET failed == DelKey(st.failed, key)
             sv == SaveJsonFile(st.failFile, st.failTmp, failed, e.saveFail)
         IN  [st EXCEPT !.failed = failed, !.failFile = sv.file,
                        !.failTmp = sv.tmp,
                        !.io = Append(@, Io("save_failed", sv.ok)),
                        !.ret = IF e.saveFail \in SaveKills
                                THEN "killed" ELSE @]
    ELSE st

\* A success branch that reports failure when the delete failed.
ReturnAfterDeleteStrict(deleted) == IF deleted THEN "true" ELSE "false"

\* self._delete_content(downloaded_path) followed by "return True": the
\* result of the delete is not looked at.
ReturnAfterDelete(deleted) == "true"

\* The success branch: write the completion record and save the map, clear
\* the failure record, delete the local artifact when auto_delete is set,
\* return True.  The results of the saves and of the delete are ignored.
CompleteItem(st, url, e, c) ==
    LET key == UrlHash(url, c.seed)
        processed == Put(st.processed, [key |-> key, url |-> url, at |-> c.now])
        sp == SaveJsonFile(st.procFile, st.procTmp, processed, e.saveProc)
        s1 == [st EXCEPT !.processed = processed, !.procFile = sp.file,
                         !.procTmp = sp.tmp,
                         !.io = Append(@, Io("save_processed", sp.ok))]
        s2 == ClearFailure(s1, key, e)
    IN  IF e.saveProc \in SaveKills THEN [s1 EXCEPT !.ret = "killed"]
        ELSE IF s2.ret = "killed" THEN s2
        ELSE IF e.kill = "before_delete" THEN [s2 EXCEPT !.ret = "killed"]
        ELSE IF c.auto_delete
        THEN LET d == DeleteContent(s2.artifact[url], e.del)
             IN  [s2 EXCEPT !.artifact[url] = d.exists,
                            !.io = Append(@, Io("delete", d.ok)),
                            !.ret = ReturnAfterDelete(d.ok)]
        ELSE [s2 EXCEPT !.ret = "true"]

\* From the upload on: upload_file, verify_upload, then the success branch or
\* a recorded failure; an exception of either call is caught by the
\* function's "except Exception" and recorded.
UploadAndVerify(st, url, e, c) ==
    LET up == UploadFile(e.upload)
        s1 == [st EXCEPT !.calls = @ \o up.calls]
        v  == VerifyUpload(e.verify, c.verify_uploads)
        s2 == [s1 EXCEPT !.calls = @ \o v.calls]
    IN  IF up.ret = "raise" THEN RecordDownloadFailure(s1, url, "exception", e, c)
        ELSE IF ~UploadSucceeded(up)
        THEN RecordDownloadFailure(s1, url, "upload", e, c)
        ELSE IF e.kill = "in_verify" THEN Abandon(s1, url, e, c)
        ELSE IF v.ret = "raise"
        THEN RecordDownloadFailure(s2, url, "exception", e, c)
        ELSE IF ~VerifySucceeded(v)
        THEN RecordDownloadFailure(s2, url, "verify", e, c)
        ELSE CompleteItem(s2, url, e, c)

\* An existence test that finds every path.
PathExistsAlways(exists) == TRUE

\* os.path.exists(downloaded_path)
PathExists(exists) == exists

\* A short-circuit that forgets the failure records.
SkipForgets(st, ret, why) ==
    [st EXCEPT !.ret = ret, !.skip = why, !.failed = <<>>]

\* The two early returns of download_and_upload: a log line and the return
\* value.
Skip(st, ret, why) == [st EXCEPT !.ret = ret, !.skip = why]

\* download_and_upload(url): the two short-circuits, os.makedirs (outside
\* the try), download_episode, the existence test of the downloaded path,
\* then the upload.  download_episode catches every exception itself; when
\* it reports success the file was written (e.exists says whether it is
\* still there when looked for).
DownloadAndUpload(st, url, e, c) ==
    LET key == UrlHash(url, c.seed)
        s1 == [st EXCEPT !.calls = <<Call("fetch", e.fetch, TRUE)>>,
                         !.artifact[url] = IF e.fetch = "true" THEN e.exists
                                           ELSE @]
    IN  IF AlreadyProcessed(st.processed, key)
        THEN Skip(st, "true", "done")
        ELSE IF Exhausted(st.failed, key)
        THEN Skip(st, "false", "exhausted")
        ELSE IF e.mkdir = "raise" THEN [st EXCEPT !.ret = "raise"]
        ELSE IF e.kill = "in_fetch" THEN Abandon(st, url, e, c)
        ELSE IF e.fetch # "true"
        THEN RecordDownloadFailure(s1, url, "fetch", e, c)
        ELSE IF ~PathExists(s1.artifact[url])
        THEN RecordDownloadFailure(s1, url, "missing", e, c)
        ELSE UploadAndVerify(s1, url, e, c)

\* ------------------------------------------------------------- the inputs
\* What the environment does during one download_and_upload call.
EnvOk ==
    [mkdir |-> "ok", fetch |-> "true", exists |-> TRUE,
     upload |-> <<"true">>, verify |-> <<"true">>,
     saveProc |-> "ok", saveFail |-> "ok", del |-> "ok", kill |-> "none"]

\* The courses of a decorated backend call: True at once, True after one
\* listed exception, False at once, a listed exception on every try.
GoodRuns == {<<"true">>, <<"raise_listed", "true">>}

BadRuns == {<<"false">>, <<"raise_listed", "raise_listed">>}

\* One representative of every course the call can take: a field that the
\* course never reads keeps its EnvOk value.
Envs ==
    {[EnvOk EXCEPT !.mkdir = "raise"], [EnvOk EXCEPT !.kill = "in_fetch"]}
    \cup {[EnvOk EXCEPT !.fetch = "false", !.saveFail = sf] : sf \in SaveOutcomes}
    \cup {[EnvOk EXCEPT !.exists = FALSE, !.saveFail = sf] : sf \in SaveOutcomes}
    \cup {[EnvOk EXCEPT !.upload = u, !.saveFail = sf] :
             u \in BadRuns, sf \in SaveOutcomes}
    \cup {[EnvOk EXCEPT !.kill = "in_verify"]}
    \cup {[EnvOk EXCEPT !.verify = v, !.saveFail = sf] :
             v \in BadRuns, sf \in SaveOutcomes}
    \cup {[EnvOk EXCEPT !.upload = u, !.verify = v] :
             u \in GoodRuns, v \in GoodRuns}
    \cup {[EnvOk EXCEPT !.saveProc = sp, !.saveFail = sf, !.del = d, !.kill = k] :
             sp \in SaveOutcomes, sf \in SaveOutcomes,
             d \in {"ok", "error"}, k \in {"none", "before_delete"}}

\* The environments in which no save fails and the process is not killed.
CalmEnvs ==
    {e \in Envs : e.saveProc = "ok" /\ e.saveFail = "ok" /\ e.kill = "none"}

\* ---------------------------------------------------------------- backlog
Line(body) == [lead |-> 0, body |-> body]

TextFile(lines) == [kind |-> "text", data |-> lines]

BacklogFiles ==
    {Missing,
     TextFile(<<Line("u1")>>),
     TextFile(<<Line("u1"), Line("u2")>>),
     TextFile(<<Line("#c"), Line("u2"), Line(""), Line("u2")>>)}

Configs == [auto_delete : BOOLEAN, verify_uploads : BOOLEAN]

\* ------------------------------------------------------------------ state
VARIABLES
    pc,          \* "ready", "retry", "backlog", "sleep", "down"
    seed,        \* the hash seed of the running process
    cfg,         \* the configuration
    urlsFile,    \* the backlog file
    processed,   \* self.processed_urls
    failed,      \* self.failed_downloads
    procFile,    \* processed_urls.json
    procTmp,     \* processed_urls.json.tmp
    failFile,    \* failed_downloads.json
    failTmp,     \* failed_downloads.json.tmp
    backups,     \* the backup copies: [file, stamp] for "<file>.<stamp>.bak"
    artifact,    \* artifact[url]: the downloaded file of url exists locally
    failedKeys,  \* the rest of failed_keys in _retry_failed_downloads
    urls,        \* the rest of urls in process_urls
    now,         \* the clock: the number of cycles started so far
    restarts,    \* process starts after the first
    last,        \* history: the last item step of the cycle
    hist,        \* history: counters and flags about the run so far
    \* selfmade/multithreads-app.py
    downloaded_series,    \* the global set downloaded_series
    downloaded_episodes,  \* the global set downloaded_episodes
    seriesFile,           \* downloaded_series.txt, the lines appended
    episodesFile,         \* downloaded_episodes.txt, the lines appended
    series,               \* series[i]: the pool task download_series(urls[i])
    \* one call of a function wrapped by retry
    retryCall,            \* the decorator's arguments and what each invocation does
    retryResult,          \* what the call did: invocations, sleeps, outcome
    \* gui.py, NkiriDownloaderGUI
    rows,                      \* downloads_table: the status text and Start button of each row
    download_queue,            \* self.download_queue
    download_threads,          \* self.download_threads
    download_count,            \* self.download_count
    max_concurrent_downloads,  \* self.max_concurrent_downloads
    workers                    \* the DownloadWorker threads started and not yet gone

bulkVars == <<pc, seed, cfg, urlsFile, processed, failed, procFile, procTmp,
              failFile, failTmp, backups, artifact, failedKeys, urls, now,
              restarts, last, hist>>

threadVars == <<downloaded_series, downloaded_episodes, seriesFile,
                episodesFile, series>>

retryVars == <<retryCall, retryResult>>

guiVars == <<rows, download_queue, download_threads, download_count,
             max_concurrent_downloads, workers>>

vars == <<bulkVars, threadVars, retryVars, guiVars>>

\* The multi-threaded variant is not running.
NoThreads ==
    /\ downloaded_series = {} /\ downloaded_episodes = {}
    /\ seriesFile = <<>> /\ episodesFile = <<>>
    /\ series = <<>>

\* No wrapped call is being made.
NoRetry == retryCall = <<>> /\ retryResult = <<>>

\* The window is not open.
NoGui ==
    /\ rows = <<>> /\ download_queue = <<>> /\ download_threads = <<>>
    /\ download_count = 0 /\ max_concurrent_downloads = 0 /\ workers = {}

\* op: the loop or operation that made the step; called: it called
\* download_and_upload.
NoStep == [op |-> "none", called |-> FALSE, url |-> "", key |-> 0,
           skip |-> "no", ret |-> "none", calls |-> <<>>, io |-> <<>>]

\* hist.verified: urls with an attempt whose fetch, upload and verify all
\* returned True, in that order; hist.completed: urls for which a call of
\* this process went through to "return True"; hist.tries[u], hist.fails[u]:
\* attempts of this cycle that reached the backend, and failures recorded in
\* this cycle; hist.runCycles: cycles started by this process; hist.allOk,
\* hist.upFailed12: the environment has followed NothingFails,
\* UploadFailsTwoCycles since the process started; hist.maxFail[u]: the
\* highest failure count u had in this process.
FreshHist(verified) ==
    [verified |-> verified, completed |-> {},
     tries |-> [u \in Urls |-> 0], fails |-> [u \in Urls |-> 0],
     runCycles |-> 0, allOk |-> TRUE, upFailed12 |-> TRUE,
     maxFail |-> [u \in Urls |-> 0]]

Ctx == [seed |-> seed, now |-> now, auto_delete |-> cfg.auto_delete,
        verify_uploads |-> cfg.verify_uploads]

Init ==
    /\ NoThreads /\ NoRetry /\ NoGui
    /\ pc = "ready"
    /\ seed = 0
    /\ cfg \in Configs
    /\ urlsFile \in BacklogFiles
    /\ processed = <<>> /\ failed = <<>>
    /\ procFile = Missing /\ procTmp = Missing
    /\ failFile = Missing /\ failTmp = Missing
    /\ backups = {}
    /\ artifact = [u \in Urls |-> FALSE]
    /\ failedKeys = <<>> /\ urls = <<>>
    /\ now = 0 /\ restarts = 0
    /\ last = NoStep
    /\ hist = FreshHist({})

\* fetch, upload and verify each returned True, in that order
VerifiedAttempt(calls) ==
    \E i, j, k \in 1..Len(calls) :
        /\ i < j /\ j < k
        /\ calls[i] = Call("fetch", "true", TRUE)
        /\ calls[j] = Call("upload", "true", TRUE)
        /\ calls[k].op = "verify" /\ calls[k].res = "true"

FailuresOf(m, key) == IF Has(m, key) THEN Get(m, key).failures ELSE 0

\* The course of the environment asked for by the retry scenario: nothing
\* fails but upload, which returns False whenever invoked in cycles 1 and 2
\* of the run and True from cycle 3 on.
UploadFailsTwoCycles(r, e) ==
    \/ r.skip # "no"
    \/ /\ r.ret \in {"true", "false"}
       /\ e.mkdir = "ok" /\ e.fetch = "true" /\ e.exists
       /\ e.saveProc = "ok" /\ e.saveFail = "ok" /\ e.del = "ok"
       /\ e.verify = <<"true">>
       /\ e.upload = IF hist.runCycles <= 2 THEN <<"false">> ELSE <<"true">>

NothingFails(r, e) ==
    \/ r.skip # "no"
    \/ /\ r.ret = "true"
       /\ e.upload = <<"true">> /\ e.verify = <<"true">>
       /\ e.saveProc = "ok" /\ e.saveFail = "ok"

\* A loop that an exception out of process_urls brings to an end.
AfterProcessUrlsFatal(raised) == IF raised THEN "down" ELSE "sleep"

\* Where the caller of process_urls goes next: run()'s loop logs an
\* exception that left process_urls and sleeps, as it does after a pass made
\* in full.
AfterProcessUrls(raised) == "sleep"

\* One call download_and_upload(url) under environment e, made by loop op;
\* the loop goes on unless the call raised (the exception leaves
\* process_urls, and run() sleeps until the next cycle) or the process was
\* killed.
CallDownloadAndUpload(url, e, op) ==
    LET st == ItemState(processed, failed, procFile, procTmp, failFile,
                        failTmp, artifact)
        r == DownloadAndUpload(st, url, e, Ctx)
        key == UrlHash(url, seed)
    IN  /\ processed' = r.processed
        /\ failed' = r.failed
        /\ procFile' = r.procFile /\ procTmp' = r.procTmp
        /\ failFile' = r.failFile /\ failTmp' = r.failTmp
        /\ artifact' = r.artifact
        /\ pc' = CASE r.ret = "killed" -> "down"
                   [] r.ret = "raise" -> AfterProcessUrls(TRUE)
                   [] OTHER -> pc
        /\ last' = [op |-> op, called |-> TRUE, url |-> url, key |-> key,
                    skip |-> r.skip, ret |-> r.ret, calls |-> r.calls,
                    io |-> r.io]
        /\ hist' = [hist EXCEPT
              !.verified = IF VerifiedAttempt(r.calls) THEN @ \cup {url} ELSE @,
              !.completed = IF r.ret = "true" /\ r.skip = "no"
                            THEN @ \cup {url} ELSE @,
              !.tries[url] = IF r.calls # <<>> THEN @ + 1 ELSE @,
              !.fails[url] = IF FailuresOf(r.failed, key) > FailuresOf(failed, key)
                             THEN @ + FailuresOf(r.failed, key)
                                    - FailuresOf(failed, key)
                             ELSE @,
              !.allOk = @ /\ NothingFails(r, e),
              !.upFailed12 = @ /\ UploadFailsTwoCycles(r, e),
              !.maxFail[url] = IF FailuresOf(r.failed, key) > @
                               THEN FailuresOf(r.failed, key) ELSE @]

\* The environments to draw from: a call that short-circuits reads none.
EnvsFor(url, E) ==
    IF \/ AlreadyProcessed(processed, UrlHash(url, seed))
       \/ Exhausted(failed, UrlHash(url, seed))
    THEN {EnvOk} ELSE E

\* ------------------------------------------------------------ process_urls
\* process_urls starts: _retry_failed_downloads snapshots the keys of the
\* failure map (an empty map returns at once).
StartCycle(limit) ==
    /\ UNCHANGED <<threadVars, retryVars, guiVars>>
    /\ pc \in {"ready", "sleep"}
    /\ now < limit
    /\ now' = now + 1
    /\ failedKeys' = KeyList(failed)
    /\ urls' = <<>>
    /\ pc' = "retry"
    /\ last' = NoStep
    /\ hist' = [hist EXCEPT !.tries = [u \in Urls |-> 0],
                            !.fails = [u \in Urls |-> 0],
                            !.runCycles = @ + 1]
    /\ UNCHANGED <<seed, cfg, urlsFile, processed, failed, procFile, procTmp,
                   failFile, failTmp, backups, artifact, restarts>>

\* One iteration of "for url_hash in failed_keys": a key no longer in the
\* map raises KeyError (the cycle ends), an exhausted record is passed
\* over, any other is retried.  (Records always carry their url, so the
\* "no URL found" branch is never taken.)
RetryItem(E) ==
    /\ UNCHANGED <<threadVars, retryVars, guiVars>>
    /\ pc = "retry"
    /\ failedKeys # <<>>
    /\ failedKeys' = Tail(failedKeys)
    /\ UNCHANGED <<seed, cfg, urlsFile, backups, urls, now, restarts>>
    /\ LET k == Head(failedKeys)
       IN  IF ~Has(failed, k)
           THEN /\ pc' = AfterProcessUrls(TRUE)
                /\ last' = [NoStep EXCEPT !.op = "retry", !.key = k,
                                          !.ret = "raise"]
                /\ UNCHANGED <<processed, failed, procFile, procTmp, failFile,
                               failTmp, artifact, hist>>
           ELSE IF Get(failed, k).failures >= MaxFailures
           THEN /\ last' = [NoStep EXCEPT !.op = "retry", !.key = k,
                                          !.url = Get(failed, k).url,
                                          !.skip = "exhausted"]
                /\ UNCHANGED <<pc, processed, failed, procFile, procTmp,
                               failFile, failTmp, artifact, hist>>
           ELSE \E e \in EnvsFor(Get(failed, k).url, E) :
                    CallDownloadAndUpload(Get(failed, k).url, e, "retry")

\* The failure sweep is over: _load_urls_from_file, and the cycle ends here
\* when there is nothing to process.
LoadBacklog ==
    /\ UNCHANGED <<threadVars, retryVars, guiVars>>
    /\ pc = "retry"
    /\ failedKeys = <<>>
    /\ urls' = LoadUrlsFromFile(urlsFile)
    /\ pc' = IF urls' = <<>> THEN "sleep" ELSE "backlog"
    /\ UNCHANGED <<seed, cfg, urlsFile, processed, failed, procFile, procTmp,
                   failFile, failTmp, backups, artifact, failedKeys, now,
                   restarts, last, hist>>

\* One iteration of "for url in urls": a processed url is passed over, any
\* other is handed to download_and_upload.
BacklogItem(E) ==
    /\ UNCHANGED <<threadVars, retryVars, guiVars>>
    /\ pc = "backlog"
    /\ urls # <<>>
    /\ urls' = Tail(urls)
    /\ UNCHANGED <<seed, cfg, urlsFile, backups, failedKeys, now, restarts>>
    /\ IF BacklogSkips(processed, UrlHash(Head(urls), seed))
       THEN /\ last' = [NoStep EXCEPT !.op = "backlog", !.url = Head(urls),
                                      !.key = UrlHash(Head(urls), seed),
                                      !.skip = "done"]
            /\ UNCHANGED <<pc, processed, failed, procFile, procTmp, failFile,
                           failTmp, artifact, hist>>
       ELSE \E e \in EnvsFor(Head(urls), E) :
                CallDownloadAndUpload(Head(urls), e, "backlog")

\* The backlog sweep is over: process_urls returns and run() sleeps.
EndCycle ==
    /\ UNCHANGED <<threadVars, retryVars, guiVars>>
    /\ pc = "backlog"
    /\ urls = <<>>
    /\ pc' = AfterProcessUrls(FALSE)
    /\ UNCHANGED <<seed, cfg, urlsFile, processed, failed, procFile, procTmp,
                   failFile, failTmp, backups, artifact, failedKeys, urls, now,
                   restarts, last, hist>>

\* ------------------------------------------------------- kill and restart
\* The process is killed while it sleeps between two cycles.
Kill ==
    /\ UNCHANGED <<threadVars, retryVars, guiVars>>
    /\ pc = "sleep"
    /\ pc' = "down"
    /\ UNCHANGED <<seed, cfg, urlsFile, processed, failed, procFile, procTmp,
                   failFile, failTmp, backups, artifact, failedKeys, urls, now,
                   restarts, last, hist>>

\* While no process runs, a record file is damaged from outside: its text
\* is no longer JSON, or it cannot be read at all.
Damage ==
    /\ UNCHANGED <<threadVars, retryVars, guiVars>>
    /\ pc = "down"
    /\ \E bad \in {BadSyntax, Unreadable} :
          \/ procFile.kind = "json" /\ procFile' = bad /\ UNCHANGED failFile
          \/ failFile.kind = "json" /\ failFile' = bad /\ UNCHANGED procFile
    /\ UNCHANGED <<pc, seed, cfg, urlsFile, processed, failed, procTmp,
                   failTmp, backups, artifact, failedKeys, urls, now,
                   restarts, last, hist>>

BackupOf(name, ld, stamp) ==
    IF ld.copied = "ok" THEN {[file |-> name, stamp |-> stamp]} ELSE {}

\* A new process: BulkDownloadManager.__init__ loads both maps, under a
\* hash seed of its own.  Seeds are only ever compared, so the seed of the
\* n-th restart is drawn from 0..n: one met before or one not met yet.
Restart ==
    /\ UNCHANGED <<threadVars, retryVars, guiVars>>
    /\ pc = "down"
    /\ restarts < MaxRestarts
    /\ restarts' = restarts + 1
    /\ seed' \in {s \in Seeds : s <= restarts'}
    /\ \E cp, cf \in {"ok", "error"} :
          LET lp == LoadJsonFile(procFile, cp)
              lf == LoadJsonFile(failFile, cf)
          IN  /\ processed' = lp.data
              /\ failed' = lf.data
              /\ backups' = backups
                    \cup BackupOf("processed_urls.json", lp, now)
                    \cup BackupOf("failed_downloads.json", lf, now)
              /\ last' = [NoStep EXCEPT !.op = "load",
                             !.io = <<Io("copy_processed", lp.copied),
                                      Io("copy_failed", lf.copied)>>]
    /\ pc' = "ready"
    /\ failedKeys' = <<>> /\ urls' = <<>>
    /\ hist' = FreshHist(hist.verified)
    /\ UNCHANGED <<cfg, urlsFile, procFile, procTmp, failFile, failTmp,
                   artifact, now>>

\* One process whose saves succeed, on backlogs of two urls.
Next ==
    \/ StartCycle(MaxCycles)
    \/ RetryItem(CalmEnvs)
    \/ LoadBacklog
    \/ BacklogItem(CalmEnvs)
    \/ EndCycle

Spec == Init /\ [][Next]_vars

\* The environments of the specifications below: of the backend calls,
\* upload and verify may return False.
FaultEnvs ==
    {e \in Envs : /\ e.mkdir = "ok" /\ e.fetch = "true" /\ e.exists
                  /\ e.upload \in {<<"true">>, <<"false">>}
                  /\ e.verify \in {<<"true">>, <<"false">>}}

\* ... where saves fail
SaveErrorEnvs ==
    {e \in FaultEnvs : /\ e.kill = "none"
                       /\ e.saveProc \notin SaveKills
                       /\ e.saveFail \notin SaveKills}

\* ... where the process is killed
KillEnvs == {e \in FaultEnvs : e.saveProc # "error" /\ e.saveFail # "error"}

InitFaults ==
    /\ Init
    /\ cfg.verify_uploads
    /\ urlsFile \in {Missing, TextFile(<<Line("u1")>>)}

\* One process whose saves may fail, on a backlog of one url.
NextFaults ==
    \/ StartCycle(MaxFaultCycles)
    \/ RetryItem(SaveErrorEnvs)
    \/ LoadBacklog
    \/ BacklogItem(SaveErrorEnvs)
    \/ EndCycle

SpecFaults == InitFaults /\ [][NextFaults]_vars

\* Processes that are killed and restarted, on a backlog of one url.
NextCrash ==
    \/ StartCycle(MaxFaultCycles)
    \/ RetryItem(KillEnvs)
    \/ LoadBacklog
    \/ BacklogItem(KillEnvs)
    \/ EndCycle
    \/ Kill
    \/ Restart

SpecCrash == InitFaults /\ [][NextCrash]_vars

\* Processes whose record files are damaged between two runs.
NextStore ==
    \/ StartCycle(MaxFaultCycles)
    \/ RetryItem(FaultEnvs \cap CalmEnvs)
    \/ LoadBacklog
    \/ BacklogItem(FaultEnvs \cap CalmEnvs)
    \/ EndCycle
    \/ Kill
    \/ Damage
    \/ Restart

SpecStore == InitFaults /\ [][NextStore]_vars
\* ------------------------------------------------------- backlog parsing
\* A line of the backlog file: lead blanks, then body (body has no blanks
\* around it; "#c" is a text that begins with '#', "" an empty text).
Indented(lead, body) == [lead |-> lead, body |-> body]

Bodies == {"u1", "u2", "#c", ""}

BacklogLines == {Indented(l, b) : l \in 0..MaxLead, b \in Bodies}

RECURSIVE LinesUpTo(_)
LinesUpTo(n) ==
    IF n = 0 THEN {<<>>}
    ELSE LinesUpTo(n - 1)
         \cup {Append(q, l) : q \in {r \in LinesUpTo(n - 1) : Len(r) = n - 1},
                              l \in BacklogLines}

\* Every backlog file of up to MaxLines lines, a missing one and one that
\* cannot be read.
InitBacklog ==
    /\ NoThreads /\ NoRetry /\ NoGui
    /\ pc = "ready"
    /\ seed = 0
    /\ cfg = [auto_delete |-> TRUE, verify_uploads |-> TRUE]
    /\ urlsFile \in {Missing, Unreadable}
                       \cup {TextFile(q) : q \in LinesUpTo(MaxLines)}
    /\ processed = <<>> /\ failed = <<>>
    /\ procFile = Missing /\ procTmp = Missing
    /\ failFile = Missing /\ failTmp = Missing
    /\ backups = {}
    /\ artifact = [u \in Urls |-> FALSE]
    /\ failedKeys = <<>> /\ urls = <<>>
    /\ now = 0 /\ restarts = 0
    /\ last = NoStep
    /\ hist = FreshHist({})

\* The environments of SpecBacklog: all goes well, or the fetch fails.
ParseEnvs == {EnvOk, [EnvOk EXCEPT !.fetch = "false"]}

NextBacklog ==
    \/ StartCycle(MaxParseCycles)
    \/ RetryItem(ParseEnvs)
    \/ LoadBacklog
    \/ BacklogItem(ParseEnvs)
    \/ EndCycle

SpecBacklog == InitBacklog /\ [][NextBacklog]_vars

\* ------------------------------------------------------------ run forever
\* The loop of run() without a last cycle: the same step as StartCycle,
\* with a clock that stands still once it reads MaxLiveClock.
StartCycleLive ==
    /\ UNCHANGED <<threadVars, retryVars, guiVars>>
    /\ pc \in {"ready", "sleep"}
    /\ now' = IF now < MaxLiveClock THEN now + 1 ELSE now
    /\ failedKeys' = KeyList(failed)
    /\ urls' = <<>>
    /\ pc' = "retry"
    /\ last' = NoStep
    /\ hist' = [hist EXCEPT !.tries = [u \in Urls |-> 0],
                            !.fails = [u \in Urls |-> 0],
                            !.runCycles = IF @ < MaxLiveClock THEN @ + 1 ELSE @]
    /\ UNCHANGED <<seed, cfg, urlsFile, processed, failed, procFile, procTmp,
                   failFile, failTmp, backups, artifact, restarts>>

\* u2 is in the backlog, before or after u1.
InitLive ==
    /\ NoThreads /\ NoRetry /\ NoGui
    /\ pc = "ready"
    /\ seed = 0
    /\ cfg \in Configs
    /\ urlsFile \in {TextFile(<<Line("u1"), Line("u2")>>),
                     TextFile(<<Line("u2"), Line("u1")>>),
                     TextFile(<<Line("u2")>>)}
    /\ processed = <<>> /\ failed = <<>>
    /\ procFile = Missing /\ procTmp = Missing
    /\ failFile = Missing /\ failTmp = Missing
    /\ backups = {}
    /\ artifact = [u \in Urls |-> FALSE]
    /\ failedKeys = <<>> /\ urls = <<>>
    /\ now = 0 /\ restarts = 0
    /\ last = NoStep
    /\ hist = FreshHist({})

\* The environments of SpecLive: all goes well, the directory of the item
\* cannot be created, or the fetch fails.
LiveEnvs ==
    {EnvOk, [EnvOk EXCEPT !.mkdir = "raise"], [EnvOk EXCEPT !.fetch = "false"]}

\* Every operation on u2 succeeds: a call of download_and_upload for u2
\* returns True.
Healed == (last'.called /\ last'.url = "u2") => last'.ret = "true"

NextLive ==
    \/ StartCycleLive
    \/ RetryItem(LiveEnvs) /\ Healed
    \/ LoadBacklog
    \/ BacklogItem(LiveEnvs) /\ Healed
    \/ EndCycle

\* run() never stops cycling.
SpecLive == InitLive /\ [][NextLive]_vars /\ WF_vars(NextLive)

\* --------------------------------------------------- multi-threaded variant
\* selfmade/multithreads-app.py: main() hands every line of
\* need_to_download.txt to a pool of MAX_WORKERS = 10 threads running
\* download_series, and download_series hands every episode link of the
\* page to a pool of 3 threads running download_episode.  The lists below
\* are shorter than the pools, so no task waits for a thread.
MaxTasks == 2

\* retry_count < 3 in download_episode
EpisodeTries == 3

\* the highest count of turns of the episode loop that is kept
MaxTurns == 4

\* The lines of need_to_download.txt, stripped; "" is a blank line.
SeriesUrls == {"s1", "s2", ""}

\* The episode links on the page of a series.
EpisodeUrls(url) == IF url = "s1" THEN <<"e1", "e2">> ELSE <<"e2">>

RECURSIVE UrlLists(_)
UrlLists(n) ==
    IF n = 0 THEN {<<>>}
    ELSE UrlLists(n - 1)
         \cup {Append(q, u) : q \in {r \in UrlLists(n - 1) : Len(r) = n - 1},
                              u \in SeriesUrls}

\* is_url_downloaded: membership, read under the lock of the set.
IsUrlDownloaded(url, downloaded_set) == url \in downloaded_set

SeriesTask(url) == [url |-> url, pc |-> "queued", episodes |-> <<>>]

\* turns is history: the turns of the loop "while not isDownloaded and
\* retry_count < 3" that the sequential script has made for the episode, up
\* to MaxTurns.
EpisodeTask(url) ==
    [url |-> url, pc |-> "queued", retry_count |-> 0, isDownloaded |-> FALSE,
     turns |-> 0]

\* One turn of the episode loop, as both series scripts write it: the
\* download and the upload succeed (isDownloaded is set, the loop ends), an
\* exception is caught and counted in retry_count, the page has no form
\* (break), or the upload returns False, which changes neither isDownloaded
\* nor retry_count.  When the loop is left without an upload the counters
\* of the task, which nothing reads any more, are put back to 0.
Turn(task, out) ==
    LET over == [task EXCEPT !.pc = "done", !.retry_count = 0, !.turns = 0]
    IN  CASE out = "uploaded" -> [task EXCEPT !.pc = "recording",
                                              !.isDownloaded = TRUE]
          [] out = "noform" -> over
          [] out = "raise" ->
               IF task.retry_count + 1 < EpisodeTries
               THEN [task EXCEPT !.retry_count = @ + 1]
               ELSE over
          [] OTHER -> task

TurnOutcomes == {"uploaded", "raise", "noform", "upload_false"}

\* main(): the two sets are loaded from the tracking files, and one task per
\* line of need_to_download.txt is queued; the lines are not deduplicated.
InitThreads ==
    /\ NoRetry /\ NoGui
    /\ pc = "down"
    /\ seed = 0
    /\ cfg = [auto_delete |-> TRUE, verify_uploads |-> TRUE]
    /\ urlsFile = Missing
    /\ processed = <<>> /\ failed = <<>>
    /\ procFile = Missing /\ procTmp = Missing
    /\ failFile = Missing /\ failTmp = Missing
    /\ backups = {}
    /\ artifact = [u \in Urls |-> FALSE]
    /\ failedKeys = <<>> /\ urls = <<>>
    /\ now = 0 /\ restarts = 0
    /\ last = NoStep
    /\ hist = FreshHist({})
    /\ downloaded_series \in {{}, {"s2"}}
    /\ downloaded_episodes \in {{}, {"e1"}}
    /\ seriesFile = <<>> /\ episodesFile = <<>>
    /\ series \in {[i \in 1..Len(q) |-> SeriesTask(q[i])] :
                      q \in UrlLists(MaxTasks)}

\* download_series up to the request of the page: an empty line and a
\* series found in downloaded_series return at once.  The set is read
\* under its lock and nothing is written to it.
DownloadSeriesStart(i) ==
    /\ series[i].pc = "queued"
    /\ series' = [series EXCEPT ![i].pc =
                     IF \/ series[i].url = ""
                        \/ IsUrlDownloaded(series[i].url, downloaded_series)
                     THEN "done" ELSE "fetching"]
    /\ UNCHANGED <<bulkVars, retryVars, guiVars, downloaded_series, downloaded_episodes,
                   seriesFile, episodesFile>>

\* download_series from the request of the page to the submission of the
\* episode tasks; an exception ends the task.
FetchSeriesPage(i) ==
    /\ series[i].pc = "fetching"
    /\ \E page \in {"ok", "raise"} :
          series' = [series EXCEPT ![i] =
              IF page = "raise" THEN [@ EXCEPT !.pc = "done"]
              ELSE LET links == EpisodeUrls(@.url)
                   IN  [@ EXCEPT !.pc = "episodes",
                                 !.episodes = [j \in 1..Len(links) |->
                                                  EpisodeTask(links[j])]]]
    /\ UNCHANGED <<bulkVars, retryVars, guiVars, downloaded_series, downloaded_episodes,
                   seriesFile, episodesFile>>

\* download_episode up to the loop: an episode found in downloaded_episodes
\* returns True at once.
DownloadEpisodeStart(i, j) ==
    /\ series[i].pc = "episodes"
    /\ series[i].episodes[j].pc = "queued"
    /\ series' = [series EXCEPT ![i].episodes[j] =
                     IF IsUrlDownloaded(@.url, downloaded_episodes)
                     THEN [@ EXCEPT !.pc = "done", !.isDownloaded = TRUE]
                     ELSE [@ EXCEPT !.pc = "working"]]
    /\ UNCHANGED <<bulkVars, retryVars, guiVars, downloaded_series, downloaded_episodes,
                   seriesFile, episodesFile>>

\* One turn of the loop of download_episode.
EpisodeAttempt(i, j) ==
    /\ series[i].pc = "episodes"
    /\ series[i].episodes[j].pc = "working"
    /\ \E out \in TurnOutcomes :
          series' = [series EXCEPT ![i].episodes[j] = Turn(@, out)]
    /\ UNCHANGED <<bulkVars, retryVars, guiVars, downloaded_series, downloaded_episodes,
                   seriesFile, episodesFile>>

\* add_to_downloaded_urls for an episode.
AddToDownloadedUrls(i, j) ==
    /\ series[i].pc = "episodes"
    /\ series[i].episodes[j].pc = "recording"
    /\ episodesFile' = Append(episodesFile, series[i].episodes[j].url)
    /\ series' = [series EXCEPT ![i].episodes[j].pc = "recorded"]
    /\ UNCHANGED <<bulkVars, retryVars, guiVars, downloaded_series, downloaded_episodes,
                   seriesFile>>

\* add_to_downloaded_set for an episode; the loop ends, True is returned.
AddToDownloadedSet(i, j) ==
    /\ series[i].pc = "episodes"
    /\ series[i].episodes[j].pc = "recorded"
    /\ downloaded_episodes' =
           downloaded_episodes \cup {series[i].episodes[j].url}
    /\ series' = [series EXCEPT ![i].episodes[j].pc = "done"]
    /\ UNCHANGED <<bulkVars, retryVars, guiVars, downloaded_series, seriesFile, episodesFile>>

\* download_series once every episode task has returned: the directory is
\* removed, and if every episode returned True the series is appended to
\* its tracking file.
SeriesDone(i) ==
    /\ series[i].pc = "episodes"
    /\ \A j \in DOMAIN series[i].episodes : series[i].episodes[j].pc = "done"
    /\ LET all == \A j \in DOMAIN series[i].episodes :
                     series[i].episodes[j].isDownloaded
       IN  /\ series' = [series EXCEPT ![i].pc =
                            IF all THEN "marking" ELSE "done"]
           /\ seriesFile' = IF all THEN Append(seriesFile, series[i].url)
                            ELSE seriesFile
    /\ UNCHANGED <<bulkVars, retryVars, guiVars, downloaded_series, downloaded_episodes,
                   episodesFile>>

\* add_to_downloaded_set for the series.
MarkSeries(i) ==
    /\ series[i].pc = "marking"
    /\ downloaded_series' = downloaded_series \cup {series[i].url}
    /\ series' = [series EXCEPT ![i].pc = "done"]
    /\ UNCHANGED <<bulkVars, retryVars, guiVars, downloaded_episodes, seriesFile, episodesFile>>

NextThreads ==
    \/ \E i \in DOMAIN series : DownloadSeriesStart(i)
    \/ \E i \in DOMAIN series : FetchSeriesPage(i)
    \/ \E i \in DOMAIN series : \E j \in DOMAIN series[i].episodes :
          DownloadEpisodeStart(i, j)
    \/ \E i \in DOMAIN series : \E j \in DOMAIN series[i].episodes :
          EpisodeAttempt(i, j)
    \/ \E i \in DOMAIN series : \E j \in DOMAIN series[i].episodes :
          AddToDownloadedUrls(i, j)
    \/ \E i \in DOMAIN series : \E j \in DOMAIN series[i].episodes :
          AddToDownloadedSet(i, j)
    \/ \E i \in DOMAIN series : SeriesDone(i)
    \/ \E i \in DOMAIN series : MarkSeries(i)

SpecThreads == InitThreads /\ [][NextThreads]_vars

\* ------------------------------------------------------ sequential script
\* selfmade/a.py: the same work in one thread.  The two sets are read from
\* the tracking files when the script starts and never written; the series
\* of need_to_download.txt are taken in order, and so are the episodes of a
\* series.
InitScript == InitThreads

\* a.py from "for url in urls" to the request of the page, for the first
\* series not yet dealt with.
ScriptSeriesStart(i) ==
    /\ series[i].pc = "queued"
    /\ \A k \in 1..(i - 1) : series[k].pc = "done"
    /\ series' = [series EXCEPT ![i].pc =
                     IF series[i].url = "" \/ series[i].url \in downloaded_series
                     THEN "done" ELSE "fetching"]
    /\ UNCHANGED <<bulkVars, retryVars, guiVars, downloaded_series, downloaded_episodes,
                   seriesFile, episodesFile>>

\* The page of the series is requested and its episode links are listed;
\* an exception is caught by the "except Exception" of the series.
ScriptFetchPage(i) ==
    /\ series[i].pc = "fetching"
    /\ \E page \in {"ok", "raise"} :
          series' = [series EXCEPT ![i] =
              IF page = "raise" THEN [@ EXCEPT !.pc = "done"]
              ELSE LET links == EpisodeUrls(@.url)
                   IN  [@ EXCEPT !.pc = "episodes",
                                 !.episodes = [j \in 1..Len(links) |->
                                                  EpisodeTask(links[j])]]]
    /\ UNCHANGED <<bulkVars, retryVars, guiVars, downloaded_series, downloaded_episodes,
                   seriesFile, episodesFile>>

\* The next episode of the series: one found in downloaded_episodes is
\* passed over, any other enters the retry loop.
ScriptEpisodeStart(i, j) ==
    /\ series[i].pc = "episodes"
    /\ series[i].episodes[j].pc = "queued"
    /\ \A l \in 1..(j - 1) : series[i].episodes[l].pc = "done"
    /\ series' = [series EXCEPT ![i].episodes[j] =
                     IF @.url \in downloaded_episodes
                     THEN [@ EXCEPT !.pc = "done", !.isDownloaded = TRUE]
                     ELSE [@ EXCEPT !.pc = "working"]]
    /\ UNCHANGED <<bulkVars, retryVars, guiVars, downloaded_series, downloaded_episodes,
                   seriesFile, episodesFile>>

\* One turn of the retry loop of a.py; after an upload the episode is
\* appended to its tracking file in the same turn.
ScriptEpisodeAttempt(i, j) ==
    /\ series[i].pc = "episodes"
    /\ series[i].episodes[j].pc = "working"
    /\ \E out \in TurnOutcomes :
          LET task == [series[i].episodes[j] EXCEPT
                          !.turns = IF @ < MaxTurns THEN @ + 1 ELSE @]
              t == Turn(task, out)
          IN  /\ series' = [series EXCEPT ![i].episodes[j] =
                               IF out = "uploaded"
                               THEN [t EXCEPT !.pc = "done", !.retry_count = 0,
                                              !.turns = 0]
                               ELSE t]
              /\ episodesFile' = IF out = "uploaded"
                                 THEN Append(episodesFile, task.url)
                                 ELSE episodesFile
    /\ UNCHANGED <<bulkVars, retryVars, guiVars, downloaded_series, downloaded_episodes,
                   seriesFile>>

\* After the last episode: the directory is removed and the series is
\* appended to its tracking file.
ScriptSeriesDone(i) ==
    /\ series[i].pc = "episodes"
    /\ \A j \in DOMAIN series[i].episodes : series[i].episodes[j].pc = "done"
    /\ series' = [series EXCEPT ![i].pc = "done"]
    /\ seriesFile' = Append(seriesFile, series[i].url)
    /\ UNCHANGED <<bulkVars, retryVars, guiVars, downloaded_series, downloaded_episodes,
                   episodesFile>>

NextScript ==
    \/ \E i \in DOMAIN series : ScriptSeriesStart(i)
    \/ \E i \in DOMAIN series : ScriptFetchPage(i)
    \/ \E i \in DOMAIN series : \E j \in DOMAIN series[i].episodes :
          ScriptEpisodeStart(i, j)
    \/ \E i \in DOMAIN series : \E j \in DOMAIN series[i].episodes :
          ScriptEpisodeAttempt(i, j)
    \/ \E i \in DOMAIN series : ScriptSeriesDone(i)

SpecScript == InitScript /\ [][NextScript]_vars

\* ---------------------------------------------------- one wrapped call
\* The bulk manager is not running.
BulkIdle ==
    /\ pc = "down"
    /\ seed = 0
    /\ cfg = [auto_delete |-> TRUE, verify_uploads |-> TRUE]
    /\ urlsFile = Missing
    /\ processed = <<>> /\ failed = <<>>
    /\ procFile = Missing /\ procTmp = Missing
    /\ failFile = Missing /\ failTmp = Missing
    /\ backups = {}
    /\ artifact = [u \in Urls |-> FALSE]
    /\ failedKeys = <<>> /\ urls = <<>>
    /\ now = 0 /\ restarts = 0
    /\ last = NoStep
    /\ hist = FreshHist({})

\* delay_seconds and backoff_factor of the decorator: the default 5 and 2,
\* the 10 and 2 of the wrappers of this file, and a factor of 1 and of 3.
RetryDelays == {2, 5, 10}

RetryBackoffs == {1, 2, 3}

\* A function decorated with retry(max_tries, delay_seconds,
\* backoff_factor) is about to be called; outs says what its invocations
\* will do.
InitRetry ==
    /\ BulkIdle /\ NoThreads /\ NoGui
    /\ retryCall \in UNION {[max_tries : {n}, delay_seconds : RetryDelays,
                              backoff_factor : RetryBackoffs,
                              outs : CallRuns(n)] : n \in 1..MaxRetryTries}
    /\ retryResult = <<>>

\* The call of the wrapper.
RetryCall ==
    /\ retryResult = <<>>
    /\ retryResult' = Retry(retryCall.max_tries, retryCall.delay_seconds,
                            retryCall.backoff_factor, retryCall.outs)
    /\ UNCHANGED <<bulkVars, threadVars, guiVars, retryCall>>

NextRetry == RetryCall

SpecRetry == InitRetry /\ [][NextRetry]_vars

\* ------------------------------------------------------ the GUI queue
\* gui.py.  A row of the table is its status text, whether its Start button
\* is enabled, and the row_id its two buttons were connected with.  A
\* worker is a DownloadWorker thread: running until run() returns, and
\* kept until its download_complete signal has been handled or the thread
\* was terminated.  download_threads is the dict row_id -> {thread, row}.
Gui == [rows |-> rows, queue |-> download_queue, threads |-> download_threads,
        count |-> download_count, workers |-> workers]

SetStatus(rs, r, text) == [rs EXCEPT ![r].status = text]

FreeThread(ws) ==
    CHOOSE t \in 1..(Cardinality(ws) + 1) :
        /\ \A w \in ws : w.thread # t
        /\ \A u \in 1..(t - 1) : \E w \in ws : w.thread = u

IsRunning(g, t) == \E w \in g.workers : w.thread = t /\ w.running

\* start_download: when the output directory cannot be made the row is
\* marked Failed and no worker starts; else the worker is stored under
\* row_id, replacing what the dict held there, and started.
StartDownload(g, item, mkdir) ==
    IF ~mkdir THEN [g EXCEPT !.rows = SetStatus(@, item.row, "Failed")]
    ELSE LET t == FreeThread(g.workers)
             rs == SetStatus(g.rows, item.row, "Starting")
         IN  [g EXCEPT !.threads = Put(@, [key |-> item.row_id,
                                            row |-> item.row, thread |-> t]),
                       !.workers = @ \cup {[thread |-> t, row_id |-> item.row_id,
                                            row |-> item.row, running |-> TRUE]},
                       !.rows = [rs EXCEPT ![item.row].start = FALSE]]

RECURSIVE ProcessLoop(_, _, _, _)
ProcessLoop(g, active_downloads, max, mkdir) ==
    IF active_downloads < max /\ g.queue # <<>>
    THEN ProcessLoop(StartDownload([g EXCEPT !.queue = Tail(@)],
                                   Head(g.queue), mkdir),
                     active_downloads + 1, max, mkdir)
    ELSE g

ProcessDownloadQueue(g, max, mkdir) ==
    ProcessLoop(g, Len(g.threads), max, mkdir)

\* queue_download: nothing is looked up before the entry is appended.
QueueDownload(g, row_id, row, max, mkdir) ==
    ProcessDownloadQueue(
        [g EXCEPT !.rows = SetStatus(@, row, "Queued"),
                  !.queue = Append(@, [row_id |-> row_id, row |-> row])],
        max, mkdir)

RemoveAt(q, i) == [k \in 1..(Len(q) - 1) |-> IF k < i THEN q[k] ELSE q[k + 1]]

\* cancel_download: a running worker stored under row_id is terminated;
\* else the first entry of the queue for the row, if any, is removed.
CancelDownload(g, row_id, row, max, mkdir) ==
    IF Has(g.threads, row_id) /\ IsRunning(g, Get(g.threads, row_id).thread)
    THEN LET t == Get(g.threads, row_id).thread
         IN  ProcessDownloadQueue(
                 [g EXCEPT !.workers = {w \in @ : w.thread # t},
                           !.rows = SetStatus(@, row, "Cancelled"),
                           !.threads = DelKey(@, row_id)],
                 max, mkdir)
    ELSE LET hits == {i \in 1..Len(g.queue) : g.queue[i].row = row}
         IN  IF hits = {} THEN g
             ELSE LET i == CHOOSE k \in hits : \A h \in hits : k <= h
                  IN  [g EXCEPT !.queue = RemoveAt(@, i),
                                !.rows = SetStatus(@, row, "Cancelled")]

RECURSIVE StartAllLoop(_, _, _, _)
StartAllLoop(g, row, max, mkdir) ==
    IF row > Len(g.rows) THEN g
    ELSE IF g.rows[row].status = "Queued"
    THEN StartAllLoop(QueueDownload([g EXCEPT !.count = @ + 1], g.count, row,
                                    max, mkdir),
                      row + 1, max, mkdir)
    ELSE StartAllLoop(g, row + 1, max, mkdir)

RECURSIVE CancelLoop(_, _, _, _)
CancelLoop(g, to_cancel, max, mkdir) ==
    IF to_cancel = <<>> THEN g
    ELSE CancelLoop(CancelDownload(g, Head(to_cancel).key, Head(to_cancel).row,
                                   max, mkdir),
                    Tail(to_cancel), max, mkdir)

CancelAllDownloads(g, max, mkdir) ==
    LET g1 == CancelLoop(g, g.threads, max, mkdir)
    IN  [g1 EXCEPT !.queue = <<>>,
                   !.rows = [r \in DOMAIN g1.rows |->
                               IF g1.rows[r].status = "Queued"
                               THEN [g1.rows[r] EXCEPT !.status = "Cancelled"]
                               ELSE g1.rows[r]]]

\* download_finished(row_id, success, message)
DownloadFinished(g, row_id, success, max, mkdir) ==
    IF Has(g.threads, row_id)
    THEN LET row == Get(g.threads, row_id).row
             rs == SetStatus(g.rows, row,
                             IF success THEN "Completed" ELSE "Failed")
         IN  ProcessDownloadQueue(
                 [g EXCEPT !.rows = [rs EXCEPT ![row].start = TRUE],
                           !.threads = DelKey(@, row_id)],
                 max, mkdir)
    ELSE g

\* What a handler leaves is written back; the bounds of the model hold.
GuiBecomes(g) ==
    /\ g.count <= MaxRowIds
    /\ Len(g.queue) <= MaxPending
    /\ Cardinality(g.workers) <= MaxWorkers
    /\ rows' = g.rows
    /\ download_queue' = g.queue
    /\ download_threads' = g.threads
    /\ download_count' = g.count
    /\ workers' = g.workers

\* __init__
InitGui ==
    /\ BulkIdle /\ NoThreads /\ NoRetry
    /\ rows = <<>> /\ download_queue = <<>> /\ download_threads = <<>>
    /\ download_count = 0
    /\ max_concurrent_downloads = 3
    /\ workers = {}

\* add_url_to_queue: a row with status Queued; no entry is queued.
AddUrlToQueue ==
    /\ Len(rows) < MaxRows
    /\ GuiBecomes([Gui EXCEPT
           !.rows = Append(@, [status |-> "Queued", start |-> TRUE,
                               row_id |-> download_count]),
           !.count = @ + 1])
    /\ UNCHANGED <<bulkVars, threadVars, retryVars, max_concurrent_downloads>>

\* The Start button of a row, while it is enabled.
StartClicked(row, mkdir) ==
    /\ rows[row].start
    /\ GuiBecomes(QueueDownload(Gui, rows[row].row_id, row,
                                max_concurrent_downloads, mkdir))
    /\ UNCHANGED <<bulkVars, threadVars, retryVars, max_concurrent_downloads>>

\* start_all_downloads
StartAllDownloads(mkdir) ==
    /\ GuiBecomes(StartAllLoop(Gui, 1, max_concurrent_downloads, mkdir))
    /\ UNCHANGED <<bulkVars, threadVars, retryVars, max_concurrent_downloads>>

\* The Cancel button of a row.
CancelClicked(row, mkdir) ==
    /\ GuiBecomes(CancelDownload(Gui, rows[row].row_id, row,
                                 max_concurrent_downloads, mkdir))
    /\ UNCHANGED <<bulkVars, threadVars, retryVars, max_concurrent_downloads>>

\* cancel_all_downloads
CancelAllClicked(mkdir) ==
    /\ GuiBecomes(CancelAllDownloads(Gui, max_concurrent_downloads, mkdir))
    /\ UNCHANGED <<bulkVars, threadVars, retryVars, max_concurrent_downloads>>

\* DownloadWorker.run returns: its signals wait for the event loop.
WorkerReturns(w) ==
    /\ w \in workers /\ w.running
    /\ workers' = (workers \ {w}) \cup {[w EXCEPT !.running = FALSE]}
    /\ UNCHANGED <<bulkVars, threadVars, retryVars, rows, download_queue,
                   download_threads, download_count, max_concurrent_downloads>>

\* The event loop delivers download_complete of a worker that returned.
FinishDelivered(w, success, mkdir) ==
    /\ w \in workers /\ ~w.running
    /\ GuiBecomes(DownloadFinished([Gui EXCEPT !.workers = @ \ {w}], w.row_id,
                                   success, max_concurrent_downloads, mkdir))
    /\ UNCHANGED <<bulkVars, threadVars, retryVars, max_concurrent_downloads>>

\* update_max_concurrent: the spinner takes another value.
UpdateMaxConcurrent(value, mkdir) ==
    /\ value # max_concurrent_downloads
    /\ max_concurrent_downloads' = value
    /\ GuiBecomes(ProcessDownloadQueue(Gui, value, mkdir))
    /\ UNCHANGED <<bulkVars, threadVars, retryVars>>

NextGui ==
    \/ AddUrlToQueue
    \/ \E row \in DOMAIN rows : \E mkdir \in BOOLEAN : StartClicked(row, mkdir)
    \/ \E mkdir \in BOOLEAN : StartAllDownloads(mkdir)
    \/ \E row \in DOMAIN rows : \E mkdir \in BOOLEAN : CancelClicked(row, mkdir)
    \/ \E mkdir \in BOOLEAN : CancelAllClicked(mkdir)
    \/ \E w \in workers : WorkerReturns(w)
    \/ \E w \in workers : \E success, mkdir \in BOOLEAN :
          FinishDelivered(w, success, mkdir)
    \/ \E value \in 1..MaxConcurrent : \E mkdir \in BOOLEAN :
          UpdateMaxConcurrent(value, mkdir)

SpecGui == InitGui /\ [][NextGui]_vars

\* ------------------------------------------------------------------ main
\* @retry(max_tries=2, delay_seconds=2) check_rclone_config
CheckTries == 2

CheckDelay == 2

\* The rclone remote of the host: configured (listremotes names it),
\* misconfigured (rclone missing, or the remote not listed), flaky
\* (listremotes fails once, then names it), erroring (listremotes fails
\* every time).
Remotes == {"configured", "misconfigured", "flaky", "erroring"}

RemoteRuns(remote) ==
    CASE remote = "configured" -> <<"true">>
      [] remote = "misconfigured" -> <<"false">>
      [] remote = "flaky" -> <<"raise_listed", "true">>
      [] OTHER -> <<"raise_listed", "raise_listed">>

\* rclone.check_rclone_config as run() sees it: the decorated call, which
\* re-raises the SubprocessError of its last try.
CheckRcloneConfig(remote) ==
    Retry(CheckTries, CheckDelay, BackoffFactor, RemoteRuns(remote)).ret

\* A gate that lets every start through.
HealthGateOpen(health_check_success, continue_on_errors) == TRUE

\* run(): "if not health_check_success and not continue_on_errors: return
\* False", read as the condition to go on.
HealthGate(health_check_success, continue_on_errors) ==
    health_check_success \/ continue_on_errors

\* run() up to its main loop: the remote check (an exception of it leaves
\* run), the test of the urls file, the gate, os.makedirs(download_dir).
\* ret is "loop" when the main loop is entered, "false" when run returns
\* False, "raise" when an exception leaves run; io lists the steps taken.
RunStartup(remote, urls_exist, continue_on_errors, mk) ==
    LET chk == CheckRcloneConfig(remote)
        io == <<Io("check_rclone_config", chk = "true"),
                Io("urls_file", urls_exist)>>
    IN  IF chk = "raise"
        THEN [ret |-> "raise", io |-> <<Io("check_rclone_config", FALSE)>>]
        ELSE IF ~HealthGate(chk = "true" /\ urls_exist, continue_on_errors)
        THEN [ret |-> "false", io |-> io]
        ELSE IF mk = "raise"
        THEN [ret |-> "raise", io |-> Append(io, Io("makedirs", FALSE))]
        ELSE [ret |-> "loop", io |-> Append(io, Io("makedirs", TRUE))]

\* A handling of KeyboardInterrupt that reports failure in every mode.
OnInterruptFail(once) == "exit1"

\* KeyboardInterrupt: run() returns True and main exits 0, or main's own
\* handler prints and returns (status 0); with --once nothing catches it and
\* the interpreter ends with a non-zero status.
OnInterrupt(once) == IF once THEN "exit1" ELSE "exit0"

\* sys.exit in the --once branch of main: 0 when process_urls returned, 1
\* when an exception left it.
OnceStatus(raised) == IF raised THEN "exit1" ELSE "exit0"

\* The configuration with the command line (--once) and the state of the
\* host's rclone remote.
MainConfigs ==
    [auto_delete : {TRUE}, verify_uploads : {TRUE}, once : BOOLEAN,
     continue_on_errors : BOOLEAN, remote : Remotes]

\* main has parsed its arguments; pc = "boot" until the manager runs,
\* "exit0" and "exit1" once the process has ended with that status.
InitMain ==
    /\ NoThreads /\ NoRetry /\ NoGui
    /\ pc = "boot"
    /\ seed = 0
    /\ cfg \in MainConfigs
    /\ urlsFile \in {Missing, TextFile(<<Line("u1")>>)}
    /\ processed = <<>> /\ failed = <<>>
    /\ procFile = Missing /\ procTmp = Missing
    /\ failFile = Missing /\ failTmp = Missing
    /\ backups = {}
    /\ artifact = [u \in Urls |-> FALSE]
    /\ failedKeys = <<>> /\ urls = <<>>
    /\ now = 0 /\ restarts = 0
    /\ last = NoStep
    /\ hist = FreshHist({})

\* main from the loading of the configuration to the first cycle: a
\* --config file that cannot be read ends the process with status 1;
\* --once goes straight to process_urls; otherwise run() starts up.
Main ==
    /\ UNCHANGED <<threadVars, retryVars, guiVars>>
    /\ pc = "boot"
    /\ \E conf \in {"ok", "error"}, mk \in {"ok", "raise"} :
          LET r == RunStartup(cfg.remote, urlsFile # Missing,
                              cfg.continue_on_errors, mk)
          IN  IF conf = "error"
              THEN /\ pc' = "exit1"
                   /\ last' = [NoStep EXCEPT !.op = "config", !.ret = "raise"]
              ELSE IF cfg.once
              THEN /\ pc' = "ready"
                   /\ last' = [NoStep EXCEPT !.op = "once"]
              ELSE /\ pc' = IF r.ret = "loop" THEN "ready" ELSE "exit1"
                   /\ last' = [NoStep EXCEPT !.op = "run", !.ret = r.ret,
                                             !.io = r.io]
    /\ UNCHANGED <<seed, cfg, urlsFile, processed, failed, procFile, procTmp,
                   failFile, failTmp, backups, artifact, failedKeys, urls, now,
                   restarts, hist>>

\* process_urls is called: by run()'s loop, or once by main under --once.
StartPass(limit) ==
    /\ cfg.once => pc = "ready"
    /\ StartCycle(limit)

\* Under --once the single pass is over: sys.exit(0), or sys.exit(1) when an
\* exception left process_urls.
ExitOnce ==
    /\ UNCHANGED <<threadVars, retryVars, guiVars>>
    /\ pc = "sleep"
    /\ cfg.once
    /\ pc' = OnceStatus(last.ret = "raise")
    /\ UNCHANGED <<seed, cfg, urlsFile, processed, failed, procFile, procTmp,
                   failFile, failTmp, backups, artifact, failedKeys, urls, now,
                   restarts, last, hist>>

\* run()'s loop fails outside process_urls (the sleep raises): "Fatal error
\* in main loop", run returns False and main exits 1.
FatalError ==
    /\ UNCHANGED <<threadVars, retryVars, guiVars>>
    /\ pc = "sleep"
    /\ ~cfg.once
    /\ pc' = "exit1"
    /\ last' = [NoStep EXCEPT !.op = "fatal", !.ret = "false"]
    /\ UNCHANGED <<seed, cfg, urlsFile, processed, failed, procFile, procTmp,
                   failFile, failTmp, backups, artifact, failedKeys, urls, now,
                   restarts, hist>>

\* KeyboardInterrupt, before the first cycle, between two items of a cycle
\* or during the sleep; io names where.
Interrupt ==
    /\ UNCHANGED <<threadVars, retryVars, guiVars>>
    /\ pc \in {"boot", "ready", "retry", "backlog", "sleep"}
    /\ pc' = OnInterrupt(cfg.once)
    /\ last' = [NoStep EXCEPT !.op = "interrupt", !.io = <<Io(pc, FALSE)>>]
    /\ UNCHANGED <<seed, cfg, urlsFile, processed, failed, procFile, procTmp,
                   failFile, failTmp, backups, artifact, failedKeys, urls, now,
                   restarts, hist>>

\* The environments of the items under main: upload or verify may return
\* False and the item's directory may fail to be made.
MainEnvs == (FaultEnvs \cap CalmEnvs) \cup {[EnvOk EXCEPT !.mkdir = "raise"]}

NextMain ==
    \/ Main
    \/ StartPass(MaxFaultCycles)
    \/ RetryItem(MainEnvs)
    \/ LoadBacklog
    \/ BacklogItem(MainEnvs)
    \/ EndCycle
    \/ ExitOnce
    \/ FatalError
    \/ Interrupt

SpecMain == InitMain /\ [][NextMain]_vars

\* ------------------------------------------------------------ properties
Range(q) == {q[i] : i \in 1..Len(q)}

\* The step is one iteration of the retry loop or of the backlog loop.
ItemStep ==
    \/ pc = "retry" /\ failedKeys' # failedKeys
    \/ pc = "backlog" /\ urls' # urls

\* The step is one call of download_and_upload; last' describes it.
DauStep == ItemStep /\ last'.called

OneUrl == LoadUrlsFromFile(urlsFile) = <<"u1">>

RecordsFor(m, url) == Cardinality(RecsOf(m, url))

OnDisk(file) == IF file.kind = "json" THEN file.data ELSE <<>>

LastIo == IF last.io = <<>> THEN Io("none", TRUE) ELSE last.io[Len(last.io)]

\* C1: once a call download_and_upload(url) of this process has gone through
\* to its completion record, every later call for the same url in the same
\* process invokes none of fetch, upload and verify, changes no record and
\* returns True.
C1_Idempotent ==
    [][(DauStep /\ last'.url \in hist.completed)
          => /\ last'.calls = <<>>
             /\ last'.ret = "true"
             /\ processed' = processed /\ failed' = failed]_vars

C1_Witness ==
    /\ last.called /\ last.url \in hist.completed
    /\ last.skip = "done" /\ last.ret = "true" /\ last.calls = <<>>

\* C2: no failure count ever exceeds max_failures, and a call of
\* download_and_upload for an identity whose count has reached max_failures
\* invokes none of fetch, upload and verify, returns False and leaves the
\* count at max_failures.
C2_Ceiling ==
    [][/\ \A i \in 1..Len(failed') : failed'[i].failures <= MaxFailures
       /\ (DauStep /\ FailuresOf(failed, last'.key) >= MaxFailures)
             => /\ last'.calls = <<>>
                /\ last'.ret = "false"
                /\ FailuresOf(failed', last'.key) = MaxFailures]_vars

C2_Witness ==
    /\ last.called /\ last.skip = "exhausted" /\ last.calls = <<>>
    /\ FailuresOf(failed, last.key) = MaxFailures
    /\ hist.verified = {}

C4_VerifiedBeforeCompletion ==
    /\ \A i \in 1..Len(processed) : processed[i].url \in hist.verified
    /\ \A i \in 1..Len(OnDisk(procFile)) :
          OnDisk(procFile)[i].url \in hist.verified
    /\ (last.called /\ last.skip = "no"
           /\ \E i \in 1..Len(last.io) : last.io[i].op = "save_processed")
          => VerifiedAttempt(last.calls)

C4_Witness ==
    /\ last.called /\ last.skip = "no" /\ last.ret = "true"
    /\ Has(processed, last.key)
    /\ RecordsFor(OnDisk(procFile), last.url) = 1
    /\ hist.maxFail[last.url] > 0

\* C5: a record file is never partially written; a process killed inside
\* _save_json_file leaves the target file as it was, and the process
\* started next loads from each record file the map it held before.
C5_AtomicPersistence ==
    [][/\ procFile'.kind \in {"missing", "json"}
       /\ failFile'.kind \in {"missing", "json"}
       /\ (ItemStep /\ last'.ret = "killed" /\ last'.io # <<>>)
             => LET io == last'.io[Len(last'.io)]
                IN  /\ io = Io("save_processed", FALSE)
                          => procFile' = procFile
                    /\ io = Io("save_failed", FALSE)
                          => failFile' = failFile
       /\ (pc = "down" /\ pc' = "ready")
             => /\ processed' = OnDisk(procFile)
                /\ failed' = OnDisk(failFile)
                /\ procFile' = procFile /\ failFile' = failFile]_vars

C5_Witness ==
    /\ last.op = "load" /\ restarts > 0
    /\ failTmp = Complete
    /\ failFile.kind = "json" /\ failed = failFile.data
    /\ failed # <<>>

C7_AsStated ==
    (/\ pc = "sleep" /\ restarts = 0 /\ hist.runCycles = 3
     /\ OneUrl /\ cfg.verify_uploads /\ hist.upFailed12)
       => /\ ~Has(failed, UrlHash("u1", seed))
          /\ Has(processed, UrlHash("u1", seed))
          /\ hist.maxFail["u1"] = 2

C9_AsStated ==
    \A u \in Urls : hist.tries[u] <= 1 /\ hist.fails[u] <= 1

\* C10 as stated: no exception leaves download_and_upload; a call that
\* does not succeed returns False with a failure record for its identity,
\* and the rest of the cycle's items are processed.
C10_AsStated ==
    last.called
       => /\ last.ret \in {"true", "false", "killed"}
          /\ (last.ret = "false" => Has(failed, last.key))
          /\ (pc = "sleep" => urls = <<>>)

\* The records of url in map m, under whatever key.
RecordsOfUrl(m, url) == {m[i] : i \in RecsOf(m, url)}

\* C11 as stated: once a completion record of an identity is persisted, a
\* call of download_and_upload for that identity, by the same or by a later
\* process, finds the record under the same key: it invokes none of fetch,
\* upload and verify and returns True.
C11_AsStated ==
    [][(DauStep /\ RecordsOfUrl(OnDisk(procFile), last'.url) # {})
          => /\ Has(OnDisk(procFile), last'.key)
             /\ last'.calls = <<>>
             /\ last'.ret = "true"]_vars

\* C12 as stated: once a failure record of an identity has reached
\* max_failures, in memory or in failed_downloads.json, no later item step,
\* of the same or of a later process, invokes the backend for that identity.
C12_AsStated ==
    [][(ItemStep /\ \E r \in RecordsOfUrl(failed, last'.url)
                             \cup RecordsOfUrl(OnDisk(failFile), last'.url) :
                       r.failures >= MaxFailures)
          => last'.calls = <<>>]_vars

\* C13 as stated: no identity has both a completion record and a failure
\* record, neither in the maps in memory at an item boundary nor in the two
\* persisted files as a process started now would read them.
C13_AsStated ==
    \A u \in Urls :
        /\ pc # "down"
              => ~(/\ RecordsOfUrl(processed, u) # {}
                   /\ RecordsOfUrl(failed, u) # {})
        /\ ~(/\ RecordsOfUrl(OnDisk(procFile), u) # {}
             /\ RecordsOfUrl(OnDisk(failFile), u) # {})

\* C14 as stated: with auto_delete set, an identity that has a completion
\* record, in memory or in processed_urls.json, was uploaded and verified
\* and its local artifact does not exist.
C14_AsStated ==
    cfg.auto_delete
       => \A u \in Urls :
             (\/ RecordsOfUrl(processed, u) # {}
              \/ RecordsOfUrl(OnDisk(procFile), u) # {})
                => u \in hist.verified /\ ~artifact[u]

\* _delete_content was called in the step described by io.
Deleted(io) == \E i \in 1..Len(io) : io[i].op = "delete"

\* upload_file returned True and then verify_upload returned True, from
\* rclone check or, with verification disabled in the config, at once.
UploadedAndVerified(calls) ==
    \E i, j \in 1..Len(calls) :
        /\ i < j
        /\ calls[i] = Call("upload", "true", TRUE)
        /\ calls[j].op = "verify" /\ calls[j].res = "true"
        /\ calls[j].remote \/ ~cfg.verify_uploads

\* C15: download_and_upload calls _delete_content only in a call in which
\* upload_file returned True and verify_upload returned True (from the
\* remote check, or at once when verification is disabled), and that then
\* returns True; a call that returns False or raises deletes nothing.
C15_DeleteOnlyAfterVerify ==
    [][DauStep
          => /\ Deleted(last'.io)
                   => /\ UploadedAndVerified(last'.calls)
                      /\ last'.ret = "true" /\ cfg.auto_delete
             /\ last'.ret \in {"false", "raise"} => ~Deleted(last'.io)
             /\ \A u \in Urls \ {last'.url} : artifact'[u] = artifact[u]]_vars

C15_Witness ==
    /\ last.called /\ last.ret = "true"
    /\ Io("delete", TRUE) \in Range(last.io)
    /\ UploadedAndVerified(last.calls)
    /\ hist.maxFail[last.url] > 0
    /\ ~artifact[last.url]

\* The remote check reports failure (returns False) or the urls file is
\* missing.
HealthFails ==
    \/ CheckRcloneConfig(cfg.remote) = "false"
    \/ CheckRcloneConfig(cfg.remote) = "true" /\ urlsFile = Missing

\* C16: in run-forever mode, when the remote check returns False or the
\* urls file is missing and continue_on_errors is not set, run() returns
\* False, the process ends with status 1 (unless interrupted first), and
\* process_urls is never called.
C16_GateRefuses ==
    (/\ ~cfg.once /\ ~cfg.continue_on_errors /\ HealthFails
     /\ pc # "boot" /\ last.op \notin {"interrupt", "config"})
       => /\ pc = "exit1"
          /\ last.op = "run" /\ last.ret = "false"
          /\ hist.runCycles = 0 /\ now = 0
          /\ processed = <<>> /\ failed = <<>>

C16_Witness ==
    /\ ~cfg.once /\ ~cfg.continue_on_errors
    /\ cfg.remote = "misconfigured" /\ urlsFile # Missing
    /\ pc = "exit1" /\ last.op = "run" /\ last.ret = "false"
    /\ Io("check_rclone_config", FALSE) \in Range(last.io)

\* C17 as stated: in run-forever mode with continue_on_errors set, a failing
\* health check, whether the remote check returns False or raises, never
\* keeps run() from entering its loop: the process does not end with
\* status 1 before the first cycle on account of the health checks.
C17_AsStated ==
    (/\ ~cfg.once /\ cfg.continue_on_errors
     /\ (HealthFails \/ CheckRcloneConfig(cfg.remote) = "raise"))
       => ~(/\ pc = "exit1" /\ hist.runCycles = 0
            /\ last.op = "run"
            /\ Io("makedirs", FALSE) \notin Range(last.io))

\* C18 as stated: when the remote check fails or the urls file is missing
\* and continue_on_errors is not set, no cycle is started and no item is
\* handed to the backend, with or without --once.
C18_AsStated ==
    (/\ ~cfg.continue_on_errors
     /\ (HealthFails \/ CheckRcloneConfig(cfg.remote) = "raise"))
       => /\ hist.runCycles = 0
          /\ \A u \in Urls : hist.tries[u] = 0

\* C19 as stated: under --once an uninterrupted process makes exactly one
\* process_urls pass; it ends with status 0 when the pass was made in full,
\* whatever items failed, and with a non-zero status only on a setup error
\* (an unreadable configuration, a failing health check).
C19_AsStated ==
    (cfg.once /\ pc \in {"exit0", "exit1"} /\ last.op # "interrupt")
       => /\ last.op # "config" => hist.runCycles = 1
          /\ pc = "exit1"
                => \/ last.op = "config"
                   \/ HealthFails
                   \/ CheckRcloneConfig(cfg.remote) = "raise"

\* C20: in run-forever mode a KeyboardInterrupt, before the first cycle,
\* during a cycle or during the sleep, ends the process with status 0; the
\* process ends with status 1 only when the configuration cannot be read,
\* run() refuses to start or raises before its loop, or its loop fails
\* outside process_urls; and it never ends with status 0 otherwise than by
\* an interrupt.
C20_ForeverExit ==
    [][~cfg.once
          => /\ (last'.op = "interrupt" /\ last' # last) => pc' = "exit0"
             /\ (pc' = "exit1" /\ pc # "exit1")
                   => \/ last'.op = "config"
                      \/ last'.op = "run" /\ last'.ret \in {"false", "raise"}
                      \/ last'.op = "fatal"
             /\ (pc' = "exit0" /\ pc # "exit0") => last'.op = "interrupt"]_vars

C20_Witness ==
    /\ ~cfg.once /\ pc = "exit0"
    /\ last.op = "interrupt" /\ last.io = <<Io("backlog", FALSE)>>
    /\ hist.runCycles = 2
    /\ failed # <<>>

C22_DeleteFailureKeepsCompletion ==
    [][(DauStep /\ Io("delete", FALSE) \in Range(last'.io))
          => /\ last'.ret = "true"
             /\ UploadedAndVerified(last'.calls)
             /\ Has(processed', last'.key)
             /\ procFile' = Json(processed')
             /\ ~Has(failed', last'.key)
             /\ Len(failed') <= Len(failed)]_vars

C22_Witness ==
    /\ last.called /\ last.ret = "true"
    /\ Io("delete", FALSE) \in Range(last.io)
    /\ artifact[last.url]
    /\ Has(processed, last.key) /\ ~Has(failed, last.key)

\* The call described by step was left inside fetch (no backend call has
\* returned) or inside verify (the last call that returned is the upload).
InBackend(step) ==
    /\ step.called /\ step.ret = "killed"
    /\ \/ step.calls = <<>>
       \/ step.calls[Len(step.calls)] = Call("upload", "true", TRUE)

\* C23: a call of download_and_upload that is interrupted inside fetch,
\* upload or verify, before any record was written, leaves both maps, both
\* record files and their temporary files as they were, so the identity is
\* as eligible afterwards as it was before.
C23_InterruptWritesNothing ==
    [][(DauStep /\ InBackend(last'))
          => /\ last'.io = <<>>
             /\ processed' = processed /\ failed' = failed
             /\ procFile' = procFile /\ failFile' = failFile
             /\ procTmp' = procTmp /\ failTmp' = failTmp
             /\ ~AlreadyProcessed(OnDisk(procFile'), last'.key)
             /\ ~Exhausted(OnDisk(failFile'), last'.key)]_vars

C23_Witness ==
    /\ pc = "down" /\ InBackend(last) /\ last.io = <<>>
    /\ Call("upload", "true", TRUE) \in Range(last.calls)
    /\ failFile.kind = "json" /\ RecordsOfUrl(failFile.data, last.url) # {}
    /\ RecordsOfUrl(OnDisk(procFile), last.url) = {}

\* The step is a call of download_and_upload that went through
\* _record_download_failure and returned False.
FailureStep == DauStep /\ last'.skip = "no" /\ last'.ret = "false"

\* What _record_download_failure is to do to the failure map: a new record
\* with count 1, or the old record with the count one higher and the time
\* and text of the last failure refreshed; no other record is touched and
\* no count ever goes down.
FailureRecorded ==
    LET k == last'.key
    IN  /\ Has(failed', k)
        /\ Get(failed', k).url = last'.url
        /\ Get(failed', k).last = now
        /\ Get(failed', k).err
              \in {"fetch", "missing", "upload", "verify", "exception"}
        /\ IF Has(failed, k)
           THEN /\ Get(failed', k).failures = Get(failed, k).failures + 1
                /\ Get(failed', k).first = Get(failed, k).first
                /\ Get(failed', k).url = Get(failed, k).url
                /\ Len(failed') = Len(failed)
           ELSE /\ Get(failed', k).failures = 1
                /\ Get(failed', k).first = now
                /\ Len(failed') = Len(failed) + 1
        /\ \A i \in 1..Len(failed) :
              failed[i].key # k => failed'[i] = failed[i]

BacklogRead == pc = "retry" /\ failedKeys = <<>> /\ pc' # "retry"

\* The lines of the backlog file as the loop over the open file sees them.
FileLines == IF urlsFile.kind = "text" THEN urlsFile.data ELSE <<>>

\* got is, in file order, the text of exactly the lines of the backlog file
\* whose numbers are in keep.
Selects(got, keep) ==
    \E f \in [1..Len(got) -> 1..Len(FileLines)] :
        /\ \A i, j \in 1..Len(got) : i < j => f[i] < f[j]
        /\ \A i \in 1..Len(got) : FileLines[f[i]].body = got[i]
        /\ \A n \in 1..Len(FileLines) :
              n \in keep <=> \E i \in 1..Len(got) : f[i] = n

\* The line has text and its first character is not '#'.
BeginsPlain(line) == line.body # "" /\ ~(line.lead = 0 /\ line.body = "#c")

\* The text of the line, blanks stripped, is not empty and does not begin
\* with '#'.
StripsPlain(line) == line.body \notin {"", "#c"}

\* C25 as stated: _load_urls_from_file returns, in file order, exactly the
\* lines that are not blank and do not begin with '#'; a missing file
\* gives the empty list and the cycle dispatches nothing from the backlog.
C25_AsStated ==
    [][BacklogRead
          => /\ Selects(urls', {n \in 1..Len(FileLines) :
                                     BeginsPlain(FileLines[n])})
             /\ urlsFile = Missing => (urls' = <<>> /\ pc' = "sleep")]_vars

\* C25: _load_urls_from_file returns, in file order, the stripped text of
\* exactly the lines whose stripped text is not empty and does not begin
\* with '#' (so an indented '#' line is ignored too); a missing file gives
\* the empty list and the cycle dispatches nothing from the backlog.
C25_BacklogParsing ==
    [][BacklogRead
          => /\ Selects(urls', {n \in 1..Len(FileLines) :
                                     StripsPlain(FileLines[n])})
             /\ urlsFile = Missing => (urls' = <<>> /\ pc' = "sleep")]_vars

C25_Witness ==
    /\ pc = "backlog"
    /\ urlsFile = TextFile(<<Indented(1, "#c"), Indented(1, "u2")>>)
    /\ urls = <<"u2">>

\* The task download_series(urls[i]) has passed its already-downloaded
\* check and has not returned.
SeriesInWork(i) == series[i].pc \in {"fetching", "episodes", "marking"}

\* The task download_episode of link j of task i has passed its
\* already-downloaded check and has not returned.
EpisodeInWork(i, j) ==
    /\ j \in DOMAIN series[i].episodes
    /\ series[i].episodes[j].pc \in {"working", "recording", "recorded"}

\* C26 as stated: in the multi-threaded variant no two workers are at work
\* on the same series URL at the same time, and no two workers are at work
\* on the same episode URL at the same time.
C26_AsStated ==
    /\ \A i, k \in DOMAIN series :
          (i # k /\ series[i].url = series[k].url)
             => ~(SeriesInWork(i) /\ SeriesInWork(k))
    /\ \A i, k \in DOMAIN series : \A j, l \in 1..2 :
          (<<i, j>> # <<k, l>> /\ EpisodeInWork(i, j) /\ EpisodeInWork(k, l))
             => series[i].episodes[j].url # series[k].episodes[l].url

\* C27 as stated: a completion record is created once per url and never
\* changes: every operation of the orchestrator (retry sweep, backlog
\* sweep, failure recording, a further cycle, of this or of a later
\* process) leaves every record of processed_urls.json as it was, and no
\* url ever has two completion records, in memory or in the file.
C27_AsStated ==
    [][/\ \A r \in Range(OnDisk(procFile)) : r \in Range(OnDisk(procFile'))
       /\ \A u \in Urls : /\ RecordsFor(processed', u) <= 1
                          /\ RecordsFor(OnDisk(procFile'), u) <= 1]_vars

\* C28 as stated: in run-forever mode u2, which is in the backlog, has no
\* failure record and finds every one of its operations succeeding,
\* eventually has a completion record.
C28_AsStated == <>(RecordsFor(processed, "u2") > 0)

\* The call uploaded: one of its invocations of upload_file returned True.
Uploaded(calls) == \E i \in 1..Len(calls) : calls[i] = Call("upload", "true", TRUE)

\* The invocations of verify_upload that ran the remote check.
RemoteChecks(calls) ==
    {i \in 1..Len(calls) : calls[i].op = "verify" /\ calls[i].remote}

\* C29: with verify_uploads false, a call of download_and_upload whose
\* upload succeeded goes straight to completion: verify_upload returns True
\* without running the remote check, the completion record is written to
\* processed_urls and to processed_urls.json, and the call returns True.
C29_VerificationDisabled ==
    [][(DauStep /\ ~cfg.verify_uploads /\ Uploaded(last'.calls))
          => /\ RemoteChecks(last'.calls) = {}
             /\ last'.calls[Len(last'.calls)] = Call("verify", "true", FALSE)
             /\ last'.ret = "true"
             /\ Has(processed', last'.key)
             /\ Get(processed', last'.key).at = now
             /\ Has(OnDisk(procFile'), last'.key)]_vars

C29_Witness ==
    /\ ~cfg.verify_uploads
    /\ last.called /\ last.skip = "no" /\ last.ret = "true"
    /\ last.calls = <<Call("fetch", "true", TRUE), Call("upload", "true", TRUE),
                      Call("verify", "true", FALSE)>>
    /\ Has(processed, last.key)
    /\ Has(OnDisk(procFile), last.key)

\* The call fetched with success and the downloaded path was not on disk
\* when download_and_upload looked for it.
FetchedNothing ==
    /\ DauStep /\ last'.skip = "no" /\ last'.calls # <<>>
    /\ last'.calls[1] = Call("fetch", "true", TRUE)
    /\ ~artifact'[last'.url]
    /\ \A i \in 1..Len(last'.io) : last'.io[i].op # "delete"

\* C30: when the fetch reports success and the downloaded path does not
\* exist on disk, the call returns False having recorded exactly one
\* failure of the url; upload_file and verify_upload are not invoked and no
\* completion record is written.
C30_MissingArtifact ==
    [][FetchedNothing
          => /\ last'.calls = <<Call("fetch", "true", TRUE)>>
             /\ last'.ret = "false"
             /\ FailuresOf(failed', last'.key) = FailuresOf(failed, last'.key) + 1
             /\ Get(failed', last'.key).url = last'.url
             /\ Len(failed') = Len(failed) + (IF Has(failed, last'.key) THEN 0 ELSE 1)
             /\ processed' = processed /\ procFile' = procFile]_vars

C30_Witness ==
    /\ last.called /\ last.skip = "no" /\ last.ret = "false"
    /\ last.calls = <<Call("fetch", "true", TRUE)>>
    /\ ~artifact[last.url]
    /\ FailuresOf(failed, last.key) = 2
    /\ RecordsFor(processed, last.url) = 0

\* The invocations of upload_file's body made by the call.
UploadCalls(calls) == {i \in 1..Len(calls) : calls[i].op = "upload"}

\* C31 as stated: download_and_upload sees an upload failure, and records
\* it, only after upload_file has retried: whenever a call ends with a
\* failed upload (rclone exits non-zero, or the transfer raises), the body
\* of upload_file was invoked more than once.
C31_AsStated ==
    [][(/\ DauStep /\ last'.ret = "false"
        /\ UploadCalls(last'.calls) # {}
        /\ ~Uploaded(last'.calls))
          => Cardinality(UploadCalls(last'.calls)) > 1]_vars

\* C32: in run-forever mode, without an interrupt, cycles recur for ever,
\* and whenever an exception has left process_urls the loop of run() goes on
\* to start the next cycle.
C32_CyclesRecur ==
    /\ []<>(pc = "retry")
    /\ [](last.ret = "raise" => <>(pc = "retry"))

\* The second cycle has read the backlog after the first one was left by an
\* exception at its first item (which therefore has no record).
C32_Witness ==
    /\ pc = "backlog" /\ now = 2
    /\ urls = <<"u1", "u2">>
    /\ processed = <<>> /\ failed = <<>>

\* The episode has been downloaded and uploaded, in this run or in an
\* earlier one.
EpisodeDownloaded(url) ==
    url \in downloaded_episodes \/ url \in Range(episodesFile)

\* C33 as stated: a series is appended to downloaded_series.txt only if
\* every episode of its page has been downloaded and uploaded, in this run
\* or in an earlier one.
C33_AsStated ==
    \A i \in DOMAIN series :
        series[i].url \in Range(seriesFile)
           => \A e \in Range(EpisodeUrls(series[i].url)) : EpisodeDownloaded(e)

\* C34 as stated: whatever the backend does, the retry loop of an episode
\* makes at most 3 turns, also when the download succeeds and the upload
\* returns False without raising.
C34_AsStated ==
    \A i \in DOMAIN series : \A j \in DOMAIN series[i].episodes :
        series[i].episodes[j].turns <= EpisodeTries

\* The records of m under the keys other than key.
Others(m, key) == SelectSeq(m, LAMBDA r : r.key # key)

\* C35: a call of download_and_upload that is not skipped and returns
\* changes the records of its url in exactly one of two ways: it returns
\* True having created the completion record and left no failure record, or
\* it returns False having raised the failure count by exactly 1 and
\* created no completion record; the records of other urls are untouched.
C35_OneRecordChange ==
    [][(DauStep /\ last'.skip = "no" /\ last'.ret \in {"true", "false"})
          => /\ \/ /\ last'.ret = "true"
                   /\ ~Has(processed, last'.key) /\ Has(processed', last'.key)
                   /\ ~Has(failed', last'.key)
                \/ /\ last'.ret = "false"
                   /\ FailuresOf(failed', last'.key)
                         = FailuresOf(failed, last'.key) + 1
                   /\ processed' = processed
             /\ Others(processed', last'.key) = Others(processed, last'.key)
             /\ Others(failed', last'.key) = Others(failed, last'.key)]_vars

\* A retried url is completed and its failure record is gone, while the
\* other url keeps its failure record.
C35_Witness ==
    /\ last.called /\ last.skip = "no" /\ last.ret = "true"
    /\ last.op = "retry"
    /\ hist.maxFail[last.url] = 2
    /\ Has(processed, last.key) /\ ~Has(failed, last.key)
    /\ failed # <<>>

\* The call tried to save the completion map and the save failed.
CompletionSaveFailed(io) ==
    \E i \in 1..Len(io) : io[i] = Io("save_processed", FALSE)

\* C36 as stated: when a call of download_and_upload fails to save the
\* completion map, it does not delete the local artifact and does not clear
\* the failure record of the url; so no url is ever left without its
\* artifact and without a record in either persisted file.
C36_AsStated ==
    [][(DauStep /\ CompletionSaveFailed(last'.io))
          => /\ \A i \in 1..Len(last'.io) : last'.io[i].op # "delete"
             /\ artifact'[last'.url]
             /\ Has(failed, last'.key) => Has(failed', last'.key)
             /\ \/ RecordsOfUrl(OnDisk(procFile'), last'.url) # {}
                \/ RecordsOfUrl(OnDisk(failFile'), last'.url) # {}
                \/ artifact'[last'.url]]_vars

\* C37: a call of download_and_upload that is skipped, because its url has
\* a completion record or has reached the failure ceiling, invokes nothing
\* and leaves the two maps, the two record files with their temporary
\* files and backups, and the local artifacts as they were.
C37_SkipChangesNothing ==
    [][(DauStep /\ last'.skip # "no")
          => /\ last'.calls = <<>> /\ last'.io = <<>>
             /\ UNCHANGED <<processed, failed, procFile, procTmp, failFile,
                            failTmp, backups, artifact>>]_vars

\* A url at the ceiling was skipped while its artifact is on disk.
C37_Witness ==
    /\ last.called /\ last.skip = "exhausted" /\ last.ret = "false"
    /\ FailuresOf(failed, last.key) = MaxFailures
    /\ artifact[last.url]

\* C38: a call through retry(max_tries = n, delay_seconds = d,
\* backoff_factor = b) with n >= 1 invokes the function at most n times;
\* the first invocation that returns ends the loop and its value is the
\* call's value; when all n invocations raise a listed exception there are
\* exactly n - 1 sleeps, of d, d*b, ..., d*b^(n-2) seconds, none after the
\* last failure, and the exception is raised to the caller.
RECURSIVE Pow(_, _)
Pow(b, k) == IF k = 0 THEN 1 ELSE b * Pow(b, k - 1)

AllListed(outs, k) == \A i \in 1..k : outs[i] = "raise_listed"

C38_RetryContract ==
    retryResult # <<>> =>
        LET c == retryCall
            r == retryResult
        IN  /\ r.n <= c.max_tries
            /\ \A i \in DOMAIN c.outs :
                   (c.outs[i] \in {"true", "false"} /\ AllListed(c.outs, i - 1))
                   => r.n = i /\ r.ret = c.outs[i]
            /\ (Len(c.outs) = c.max_tries /\ AllListed(c.outs, c.max_tries))
               => /\ r.n = c.max_tries
                  /\ r.ret = "raise"
                  /\ r.sleeps = [i \in 1..(c.max_tries - 1) |->
                                    c.delay_seconds * Pow(c.backoff_factor, i - 1)]

C38_Witness ==
    /\ retryCall # <<>>
    /\ retryCall.max_tries = 3 /\ AllListed(retryCall.outs, 3)
    /\ retryCall.delay_seconds = 5 /\ retryCall.backoff_factor = 2
    /\ retryResult # <<>>
    /\ retryResult.sleeps = <<5, 10>> /\ retryResult.n = 3

\* C39: whatever was added, started, started all at once, cancelled,
\* cancelled all at once or finished, a row of the table has at most one
\* entry waiting in download_queue and at most one active worker, and never
\* has both.
PendingOf(row) == {i \in 1..Len(download_queue) : download_queue[i].row = row}

ActiveOf(row) == {w \in workers : w.row = row /\ w.running}

C39_AsStated ==
    \A row \in DOMAIN rows :
        /\ Cardinality(PendingOf(row)) <= 1
        /\ Cardinality(ActiveOf(row)) <= 1
        /\ ~(PendingOf(row) # {} /\ ActiveOf(row) # {})

\* C40: the sweep over the failure records never raises, whatever the map
\* holds: also when handling one record removes another one that the sweep
\* has still to visit, as with two records of one url under two keys.
KeyErrorInSweep ==
    last.op = "retry" /\ ~last.called /\ last.ret = "raise"

C40_AsStated == ~KeyErrorInSweep

====
